---- MODULE Spec2Model ----
(***************************************************************************)
(* Decision/automation engine of the UI-automation tool:                   *)
(*   - DecisionEngine (modules/decision_engine.py): element matching,      *)
(*     state identification, FSM transition selection, fallbacks;          *)
(*   - SimpleAutomation (modules/simple_automation.py): linear executor;   *)
(*   - the FSM control loop and the start/stop/worker lifecycle of the web *)
(*     front end (web_app.py).                                             *)
(* Python dicts are functions whose DOMAIN is the set of present keys;     *)
(* texts are sequences of one-character strings; confidences are integer   *)
(* percentages; time is an integer number of seconds.                      *)
(***************************************************************************)
EXTENDS Integers, Sequences, FiniteSets, TLC

VARIABLES
    cfg,        \* the loaded configuration (config dict)
    now,        \* wall clock, time.time()
    eng,        \* fields of the DecisionEngine object driven directly
    probe,      \* last direct call of an engine query: inputs and result
    calls,      \* number of direct engine calls made
    w,          \* worker threads: locals of run()/the FSM loop, per thread
    events,     \* threading.Event objects: events[i] = is_set()
    astate,     \* web_app.automation_state
    starts      \* number of accepted start_automation requests

vars == <<cfg, now, eng, probe, calls, w, events, astate, starts>>

----------------------------------------------------------------------------
(* Bounds of the model *)

\* longest detected-element list given to a matcher query
MaxBoxes == 2

\* longest required_elements list of a state definition
MaxCriteria == 2

\* direct engine calls per behaviour
MaxCalls == 2

\* most steps of a generated step-based configuration
MaxSteps == 2

\* send_action calls of one action that may succeed before one raises
MaxSends == 2

\* optional interrupts counted in one run; the count stops there
MaxOptionals == 1

\* the clock, in seconds, is not advanced past this value
MaxNow == 400

\* calls of calibrate_from_screenshot on one scaler
MaxCalibrations == 4

\* largest max_iterations setting of a state-machine run
MaxIterations == 4

\* start requests accepted by the server
MaxStarts == 2

\* largest max_iterations setting of a run followed to its end under fairness
MaxFairIterations == 3

----------------------------------------------------------------------------
(* Python values *)

EmptyDict == [k \in {} |-> TRUE]

None == -1

Get(d, k, def) == IF k \in DOMAIN d THEN d[k] ELSE def

Truthy(d) == DOMAIN d # {}

----------------------------------------------------------------------------
(* Texts: str.lower(), ==, in, startswith, endswith *)

LowerChar(c) ==
    CASE c = "P" -> "p"
      [] c = "O" -> "o"
      [] c = "K" -> "k"
      [] c = "F" -> "f"
      [] c = "S" -> "s"
      [] OTHER -> c

Lower(s) == [i \in 1..Len(s) |-> LowerChar(s[i])]

StartsWith(s, p) ==
    /\ Len(p) <= Len(s)
    /\ \A i \in 1..Len(p) : s[i] = p[i]

EndsWith(s, p) ==
    /\ Len(p) <= Len(s)
    /\ \A i \in 1..Len(p) : s[Len(s) - Len(p) + i] = p[i]

Contains(s, p) ==
    \E k \in 0..(Len(s) - Len(p)) : \A i \in 1..Len(p) : s[k + i] = p[i]

\* the if/elif chain over text_match; an unknown strategy leaves text_match False
TextMatch(want, have, strategy) ==
    IF have # <<>> /\ want # <<>>
    THEN CASE strategy = "exact" -> Lower(want) = Lower(have)
           [] strategy = "contains" -> Contains(Lower(have), Lower(want))
           [] strategy = "startswith" -> StartsWith(Lower(have), Lower(want))
           [] strategy = "endswith" -> EndsWith(Lower(have), Lower(want))
           [] OTHER -> FALSE
    ELSE want = <<>>

TypeMatch(want, bbox) ==
    want = "any" \/ want = "" \/ bbox.element_type = want

----------------------------------------------------------------------------
(* Detected elements *)

BoundingBox(x, y, width, height, confidence, element_type, element_text) ==
    [x |-> x, y |-> y, width |-> width, height |-> height,
     confidence |-> confidence, element_type |-> element_type,
     element_text |-> element_text]

TxtPlay == <<"P", "l", "a", "y">>
TxtPlayNow == <<"p", "l", "a", "y", "!">>
TxtOK == <<"O", "K">>
TxtFPS == <<"F", "P", "S">>
TxtScore == <<"S", "c", "o", "r", "e">>

BoxPlay == BoundingBox(100, 50, 80, 20, 90, "button", TxtPlay)
BoxPlayFaint == BoundingBox(10, 10, 41, 21, 50, "button", TxtPlayNow)
BoxOK == BoundingBox(200, 120, 60, 30, 95, "button", TxtOK)
BoxFPS == BoundingBox(0, 0, 30, 10, 80, "text", TxtFPS)
BoxIcon == BoundingBox(300, 300, 16, 16, 70, "icon", <<>>)
BoxScore == BoundingBox(40, 40, 50, 12, 85, "text", TxtScore)

Boxes == {BoxPlay, BoxPlayFaint, BoxOK, BoxFPS, BoxIcon}

RECURSIVE SeqsUpTo(_, _)
SeqsUpTo(S, n) ==
    IF n = 0 THEN {<<>>}
    ELSE LET shorter == SeqsUpTo(S, n - 1)
         IN shorter \cup {Append(s, e) : s \in {t \in shorter : Len(t) = n - 1}, e \in S}

BoxLists == SeqsUpTo(Boxes, MaxBoxes)

----------------------------------------------------------------------------
(* DecisionEngine._find_matching_element *)

\* lines 85-114: an excluded criterion is matched by type and text only
ExcludedHit(excluded, bbox) ==
    /\ TypeMatch(Get(excluded, "type", "any"), bbox)
    /\ TextMatch(Get(excluded, "text", <<>>), bbox.element_text,
                 Get(excluded, "text_match", "exact"))

\* the exclusion loop with the confidence test of the required loop copied in
AnyExcluded_Confident(state_def, bounding_boxes) ==
    LET exclude_elements == Get(state_def, "exclude_elements", <<>>)
    IN \E i \in 1..Len(exclude_elements) : \E j \in 1..Len(bounding_boxes) :
          /\ ExcludedHit(exclude_elements[i], bounding_boxes[j])
          /\ bounding_boxes[j].confidence >= Get(exclude_elements[i], "required_confidence", 60)

AnyExcluded(state_def, bounding_boxes) ==
    LET exclude_elements == Get(state_def, "exclude_elements", <<>>)
    IN \E i \in 1..Len(exclude_elements) : \E j \in 1..Len(bounding_boxes) :
          ExcludedHit(exclude_elements[i], bounding_boxes[j])

\* a required criterion matched by type and text only, as an excluded one is
RequiredHit_AnyConfidence(required, bbox) ==
    /\ TypeMatch(Get(required, "type", "any"), bbox)
    /\ TextMatch(Get(required, "text", <<>>), bbox.element_text,
                 Get(required, "text_match", "exact"))

\* lines 126-163: a required criterion also checks the confidence threshold
RequiredHit(required, bbox) ==
    /\ TypeMatch(Get(required, "type", "any"), bbox)
    /\ TextMatch(Get(required, "text", <<>>), bbox.element_text,
                 Get(required, "text_match", "exact"))
    /\ bbox.confidence >= Get(required, "required_confidence", 60)

\* index of the first box satisfying the criterion, 0 when there is none
FirstHit(required, bounding_boxes) ==
    LET hits == {j \in 1..Len(bounding_boxes) : RequiredHit(required, bounding_boxes[j])}
    IN IF hits = {} THEN 0 ELSE CHOOSE j \in hits : \A k \in hits : j <= k

DummyBox ==
    BoundingBox(0, 0, 0, 0, 100, "dummy",
                <<"N", "o", " ", "r", "e", "q", "u", "i", "r", "e", "d",
                  " ", "e", "l", "e", "m", "e", "n", "t", "s">>)

NoBox == EmptyDict

\* the matcher looking for the last required criterion only
FindMatchingElement_LastOnly(state_def, bounding_boxes) ==
    LET required_elements == Get(state_def, "required_elements", <<>>)
    IN IF AnyExcluded(state_def, bounding_boxes) THEN NoBox
       ELSE IF required_elements = <<>> THEN DummyBox
       ELSE IF FirstHit(required_elements[Len(required_elements)], bounding_boxes) = 0
            THEN NoBox
       ELSE bounding_boxes[FirstHit(required_elements[Len(required_elements)],
                                    bounding_boxes)]

\* exclusions first, then the empty-requirement anchor, then every
\* required criterion; the box returned is the match of the last criterion
FindMatchingElement(state_def, bounding_boxes) ==
    LET required_elements == Get(state_def, "required_elements", <<>>)
    IN IF AnyExcluded(state_def, bounding_boxes) THEN NoBox
       ELSE IF required_elements = <<>> THEN DummyBox
       ELSE IF \E i \in 1..Len(required_elements) :
                   FirstHit(required_elements[i], bounding_boxes) = 0
            THEN NoBox
       ELSE bounding_boxes[FirstHit(required_elements[Len(required_elements)],
                                    bounding_boxes)]

----------------------------------------------------------------------------
(* Configuration access.  cfg.states and cfg.transitions keep the          *)
(* declaration order of the YAML mappings; a transition key "from->to" is  *)
(* the pair of its two fields.                                             *)

StateNames(c) == [i \in 1..Len(c.states) |-> c.states[i].name]

HasTransition(c, from, to) ==
    \E i \in 1..Len(c.transitions) :
        c.transitions[i].from = from /\ c.transitions[i].to = to

TransitionDef(c, from, to) ==
    IF HasTransition(c, from, to)
    THEN (CHOOSE t \in {c.transitions[i] : i \in 1..Len(c.transitions)} :
              t.from = from /\ t.to = to).def
    ELSE EmptyDict

\* HybridConfigParser.get_state_definition: None is the empty dict here
get_state_definition(c, state_name) ==
    IF \E i \in 1..Len(c.states) : c.states[i].name = state_name
    THEN (CHOOSE s \in {c.states[i] : i \in 1..Len(c.states)} : s.name = state_name).def
    ELSE EmptyDict

\* HybridConfigParser._detect_config_type
_detect_config_type(c) ==
    IF "steps" \in DOMAIN c THEN "steps" ELSE "state_machine"

required_sections == {"states", "transitions", "initial_state", "target_state"}

\* HybridConfigParser._validate_config: FALSE where the code raises ValueError
_validate_config(c) ==
    IF _detect_config_type(c) = "steps"
    THEN DOMAIN c.steps # {}
    ELSE required_sections \subseteq DOMAIN c

----------------------------------------------------------------------------
(* DecisionEngine *)

NewEngine ==
    [state_history |-> <<>>,
     state_context |-> EmptyDict,
     visited_states |-> {},
     transitions_taken |-> {},
     state_start_times |-> EmptyDict,
     benchmark_started_at |-> None,
     benchmark_completed_at |-> None]

result_keywords ==
    {<<"r", "e", "s", "u", "l", "t">>,
     <<"f", "p", "s">>,
     <<"s", "c", "o", "r", "e">>,
     <<"p", "e", "r", "f", "o", "r", "m", "a", "n", "c", "e">>,
     <<"b", "e", "n", "c", "h", "m", "a", "r", "k">>,
     <<"c", "o", "m", "p", "l", "e", "t", "e">>,
     <<"a", "v", "e", "r", "a", "g", "e">>}

_is_likely_benchmark_results(bounding_boxes) ==
    \E j \in 1..Len(bounding_boxes) :
        /\ bounding_boxes[j].element_text # <<>>
        /\ \E keyword \in result_keywords :
              Contains(Lower(bounding_boxes[j].element_text), keyword)

\* names of the declared states whose definition matches, in declaration order
MatchingStates(c, bounding_boxes) ==
    LET Matches(s) == FindMatchingElement(s.def, bounding_boxes) # NoBox
        kept == SelectSeq(c.states, Matches)
    IN [i \in 1..Len(kept) |-> kept[i].name]

InSeq(x, s) == \E i \in 1..Len(s) : s[i] = x

\* the resolution with "no state matches" answered by the first declared state
IdentifyAmong_FirstDeclared(c, e, matching_states, bounding_boxes) ==
    LET hist == e.state_history
        current == hist[Len(hist)]
        follow == {i \in 1..Len(matching_states) :
                      HasTransition(c, current, matching_states[i])}
    IN IF /\ Get(e.state_context, "in_benchmark", FALSE)
          /\ Len(hist) > 0
          /\ hist[Len(hist)] = "benchmark_running"
          /\ _is_likely_benchmark_results(bounding_boxes)
       THEN "benchmark_complete"
       ELSE IF matching_states = <<>> THEN c.states[1].name
       ELSE IF Len(matching_states) = 1 THEN matching_states[1]
       ELSE IF Len(hist) > 0 /\ follow # {}
            THEN matching_states[CHOOSE i \in follow : \A k \in follow : i <= k]
       ELSE IF /\ InSeq("benchmark_running", matching_states)
               /\ InSeq("benchmark_complete", matching_states)
            THEN IF Get(e.state_context, "benchmark_run", FALSE)
                 THEN "benchmark_complete"
                 ELSE "benchmark_running"
       ELSE matching_states[1]

\* the resolution with an ambiguity left by the context settled for the
\* last matching state
IdentifyAmong_LastMatch(c, e, matching_states, bounding_boxes) ==
    LET hist == e.state_history
        current == hist[Len(hist)]
        follow == {i \in 1..Len(matching_states) :
                      HasTransition(c, current, matching_states[i])}
    IN IF /\ Get(e.state_context, "in_benchmark", FALSE)
          /\ Len(hist) > 0
          /\ hist[Len(hist)] = "benchmark_running"
          /\ _is_likely_benchmark_results(bounding_boxes)
       THEN "benchmark_complete"
       ELSE IF matching_states = <<>> THEN "unknown"
       ELSE IF Len(matching_states) = 1 THEN matching_states[1]
       ELSE IF Len(hist) > 0 /\ follow # {}
            THEN matching_states[CHOOSE i \in follow : \A k \in follow : i <= k]
       ELSE IF /\ InSeq("benchmark_running", matching_states)
               /\ InSeq("benchmark_complete", matching_states)
            THEN IF Get(e.state_context, "benchmark_run", FALSE)
                 THEN "benchmark_complete"
                 ELSE "benchmark_running"
       ELSE matching_states[Len(matching_states)]

\* lines 189-229 on the list of matching states
IdentifyAmong(c, e, matching_states, bounding_boxes) ==
    LET hist == e.state_history
        current == hist[Len(hist)]
        follow == {i \in 1..Len(matching_states) :
                      HasTransition(c, current, matching_states[i])}
    IN IF /\ Get(e.state_context, "in_benchmark", FALSE)
          /\ Len(hist) > 0
          /\ hist[Len(hist)] = "benchmark_running"
          /\ _is_likely_benchmark_results(bounding_boxes)
       THEN "benchmark_complete"
       ELSE IF matching_states = <<>> THEN "unknown"
       ELSE IF Len(matching_states) = 1 THEN matching_states[1]
       ELSE IF Len(hist) > 0 /\ follow # {}
            THEN matching_states[CHOOSE i \in follow : \A k \in follow : i <= k]
       ELSE IF /\ InSeq("benchmark_running", matching_states)
               /\ InSeq("benchmark_complete", matching_states)
            THEN IF Get(e.state_context, "benchmark_run", FALSE)
                 THEN "benchmark_complete"
                 ELSE "benchmark_running"
       ELSE matching_states[1]

_identify_current_state(c, e, bounding_boxes) ==
    IdentifyAmong(c, e, MatchingStates(c, bounding_boxes), bounding_boxes)

\* a timestamp is falsy when it is None or 0
TimeSet(t) == t # None /\ t # 0

track_benchmark_timing(e, current_state, new_state, t) ==
    LET e1 == IF new_state = "benchmark_running" /\ ~TimeSet(e.benchmark_started_at)
              THEN [e EXCEPT !.benchmark_started_at = t,
                             !.state_context = ("in_benchmark" :> TRUE) @@ @]
              ELSE e
        e2 == IF current_state = "benchmark_running" /\ new_state = "benchmark_complete"
              THEN [e1 EXCEPT !.benchmark_completed_at = t,
                              !.state_context =
                                  IF TimeSet(e1.benchmark_started_at)
                                  THEN ("benchmark_duration" :> (t - e1.benchmark_started_at))
                                       @@ ("benchmark_run" :> TRUE) @@ @
                                  ELSE ("benchmark_run" :> TRUE) @@ @]
              ELSE e1
    IN e2

Click(x, y) == [type |-> "click", x |-> x, y |-> y]

\* the click target matched with the confidence test of the required loop
TargetHit_Confident(target_element, bbox) ==
    /\ TypeMatch(Get(target_element, "type", "any"), bbox)
    /\ TextMatch(Get(target_element, "text", <<>>), bbox.element_text,
                 Get(target_element, "text_match", "exact"))
    /\ bbox.confidence >= Get(target_element, "required_confidence", 60)

\* lines 325-355: the click target is matched by type and text
TargetHit(target_element, bbox) ==
    /\ TypeMatch(Get(target_element, "type", "any"), bbox)
    /\ TextMatch(Get(target_element, "text", <<>>), bbox.element_text,
                 Get(target_element, "text_match", "exact"))

\* a resolution that looks for the element before the hardcoded coordinates
_get_action_for_transition_ElementFirst(c, e, from_state, to_state, bounding_boxes) ==
    LET transition == TransitionDef(c, from_state, to_state)
        e1 == [e EXCEPT !.transitions_taken = @ \cup {<<from_state, to_state>>}]
        action_type == Get(transition, "action", "")
        coords == Get(transition, "hardcoded_coords", EmptyDict)
        target_element == Get(transition, "target", EmptyDict)
        hits == {j \in 1..Len(bounding_boxes) : TargetHit(target_element, bounding_boxes[j])}
        bbox == bounding_boxes[CHOOSE j \in hits : \A k \in hits : j <= k]
        fallback_coords == Get(transition, "fallback_coords", EmptyDict)
        key == Get(transition, "key", "")
    IN IF ~Truthy(transition) THEN [action |-> EmptyDict, e |-> e]
       ELSE IF action_type = "click" /\ hits # {}
            THEN [action |-> Click(bbox.x + (bbox.width \div 2),
                                   bbox.y + (bbox.height \div 2)),
                  e |-> e1]
       ELSE IF "hardcoded_coords" \in DOMAIN transition
            THEN [action |-> Click(Get(coords, "x", 0), Get(coords, "y", 0)), e |-> e1]
       ELSE IF action_type = "click"
            THEN IF hits # {}
                 THEN [action |-> Click(bbox.x + (bbox.width \div 2),
                                        bbox.y + (bbox.height \div 2)),
                       e |-> e1]
                 ELSE IF Truthy(fallback_coords)
                      THEN [action |-> Click(Get(fallback_coords, "x", 0),
                                             Get(fallback_coords, "y", 0)),
                            e |-> e1]
                      ELSE [action |-> EmptyDict, e |-> e1]
       ELSE IF action_type = "key"
            THEN IF key # ""
                 THEN [action |-> [type |-> "key", key |-> key], e |-> e1]
                 ELSE [action |-> EmptyDict, e |-> e1]
       ELSE IF action_type = "wait"
            THEN [action |-> [type |-> "wait", duration |-> Get(transition, "duration", 1)],
                  e |-> IF from_state = "benchmark_running" \/ to_state = "benchmark_complete"
                        THEN [e1 EXCEPT !.state_context = ("in_benchmark" :> TRUE) @@ @]
                        ELSE e1]
       ELSE [action |-> EmptyDict, e |-> e1]

\* returns the action and the engine after the call
_get_action_for_transition(c, e, from_state, to_state, bounding_boxes) ==
    LET transition == TransitionDef(c, from_state, to_state)
        e1 == [e EXCEPT !.transitions_taken = @ \cup {<<from_state, to_state>>}]
        action_type == Get(transition, "action", "")
        coords == Get(transition, "hardcoded_coords", EmptyDict)
        target_element == Get(transition, "target", EmptyDict)
        hits == {j \in 1..Len(bounding_boxes) : TargetHit(target_element, bounding_boxes[j])}
        bbox == bounding_boxes[CHOOSE j \in hits : \A k \in hits : j <= k]
        fallback_coords == Get(transition, "fallback_coords", EmptyDict)
        key == Get(transition, "key", "")
    IN IF ~Truthy(transition) THEN [action |-> EmptyDict, e |-> e]
       ELSE IF "hardcoded_coords" \in DOMAIN transition
            THEN [action |-> Click(Get(coords, "x", 0), Get(coords, "y", 0)), e |-> e1]
       ELSE IF action_type = "click"
            THEN IF hits # {}
                 THEN [action |-> Click(bbox.x + (bbox.width \div 2),
                                        bbox.y + (bbox.height \div 2)),
                       e |-> e1]
                 ELSE IF Truthy(fallback_coords)
                      THEN [action |-> Click(Get(fallback_coords, "x", 0),
                                             Get(fallback_coords, "y", 0)),
                            e |-> e1]
                      ELSE [action |-> EmptyDict, e |-> e1]
       ELSE IF action_type = "key"
            THEN IF key # ""
                 THEN [action |-> [type |-> "key", key |-> key], e |-> e1]
                 ELSE [action |-> EmptyDict, e |-> e1]
       ELSE IF action_type = "wait"
            THEN [action |-> [type |-> "wait", duration |-> Get(transition, "duration", 1)],
                  e |-> IF from_state = "benchmark_running" \/ to_state = "benchmark_complete"
                        THEN [e1 EXCEPT !.state_context = ("in_benchmark" :> TRUE) @@ @]
                        ELSE e1]
       ELSE [action |-> EmptyDict, e |-> e1]

\* a selection that always takes the first declared transition
_select_next_state_First(c, e, current_state) ==
    LET Leaves(t) == t.from = current_state
        out == SelectSeq(c.transitions, Leaves)
    IN IF out = <<>> THEN "" ELSE out[1].to

\* "" when no transition leaves current_state
_select_next_state(c, e, current_state) ==
    LET Leaves(t) == t.from = current_state
        out == SelectSeq(c.transitions, Leaves)
        possible_transitions == [i \in 1..Len(out) |-> out[i].to]
        unvisited == {i \in 1..Len(out) : possible_transitions[i] \notin e.visited_states}
    IN IF possible_transitions = <<>> THEN ""
       ELSE IF Len(possible_transitions) > 1 /\ unvisited # {}
            THEN possible_transitions[CHOOSE i \in unvisited : \A k \in unvisited : i <= k]
       ELSE possible_transitions[1]

EscapeKey == [type |-> "key", key |-> "escape"]

\* a lookup that prefers the general fallback to the state's own
get_fallback_action_GeneralFirst(c, current_state) ==
    LET state_fallback == Get(c.fallbacks, current_state, EmptyDict)
        general_fallback == Get(c.fallbacks, "general", EmptyDict)
    IN IF Truthy(general_fallback) THEN general_fallback
       ELSE IF Truthy(state_fallback) THEN state_fallback
       ELSE EscapeKey

get_fallback_action(c, current_state) ==
    LET state_fallback == Get(c.fallbacks, current_state, EmptyDict)
        general_fallback == Get(c.fallbacks, "general", EmptyDict)
    IN IF Truthy(state_fallback) THEN state_fallback
       ELSE IF Truthy(general_fallback) THEN general_fallback
       ELSE EscapeKey

\* an entry recorded whether or not the state has changed
EnterState_Always(e, s, t) ==
    [e EXCEPT !.state_history = Append(@, s),
              !.visited_states = @ \cup {s},
              !.state_start_times = (s :> t) @@ @]

\* lines 482-486 and 496-499: record the entry into a state
EnterState(e, s, t) ==
    IF e.state_history = <<>> \/ e.state_history[Len(e.state_history)] # s
    THEN [e EXCEPT !.state_history = Append(@, s),
                   !.visited_states = @ \cup {s},
                   !.state_start_times = (s :> t) @@ @]
    ELSE e

WaitAction(d) == [type |-> "wait", duration |-> d]

\* the terminal test comparing with the wrong configuration field
ReachedTarget_Initial(c, cur) == cur = c.initial_state

\* line 502, evaluated on the (possibly corrected) current state
ReachedTarget(c, cur) == cur = c.target_state

\* the stuck test reading the verified state as recognised
StuckUnrecognised_Known(cur, verified_state) ==
    cur # "initial" /\ verified_state # "unknown"

\* line 512: stuck away from "initial" with nothing recognised
StuckUnrecognised(cur, verified_state) ==
    cur # "initial" /\ verified_state = "unknown"

\* returns [action, new_state, e, verified]
\* lines 524-531: the transition's action, the benchmark timing
TakeTransition(res, cur, next_state, verified_state, t) ==
    [action |-> res.action, new_state |-> next_state,
     e |-> track_benchmark_timing(res.e, cur, next_state, t),
     verified |-> verified_state, via |-> "transition"]

\* lines 506-531 once the next state is selected
AfterSelection(c, e, cur, verified_state, next_state, bounding_boxes, t) ==
    IF next_state = ""
    THEN IF StuckUnrecognised(cur, verified_state)
         THEN [action |-> WaitAction(3), new_state |-> "initial", e |-> e,
               verified |-> verified_state, via |-> "to initial"]
         ELSE IF cur = "unknown" \/ verified_state = "unknown"
              THEN [action |-> get_fallback_action(c, cur), new_state |-> cur,
                    e |-> e, verified |-> verified_state, via |-> "fallback"]
              ELSE [action |-> EmptyDict, new_state |-> cur, e |-> e,
                    verified |-> verified_state, via |-> "no transition"]
    ELSE TakeTransition(_get_action_for_transition(c, e, cur, next_state, bounding_boxes),
                        cur, next_state, verified_state, t)

\* lines 501-531 on the (possibly corrected) current state
AfterCorrection(c, e, cur, verified_state, bounding_boxes, t) ==
    IF ReachedTarget(c, cur)
    THEN [action |-> EmptyDict, new_state |-> cur, e |-> e, verified |-> verified_state,
          via |-> "target"]
    ELSE AfterSelection(c, e, cur, verified_state, _select_next_state(c, e, cur),
                        bounding_boxes, t)

\* a call that keeps the state it was given whatever the elements show
AfterVerification_KeepsExpected(c, e, current_state, verified_state, bounding_boxes, t) ==
    AfterCorrection(c, e, current_state, verified_state, bounding_boxes, t)

\* lines 491-499: the verified state replaces a different expected state
AfterVerification(c, e, current_state, verified_state, bounding_boxes, t) ==
    IF verified_state # "unknown" /\ verified_state # current_state
    THEN AfterCorrection(c, EnterState(e, verified_state, t), verified_state,
                         verified_state, bounding_boxes, t)
    ELSE AfterCorrection(c, e, current_state, verified_state, bounding_boxes, t)

\* lines 481-489: the history is extended, the state verified
AfterEntry(c, e, current_state, bounding_boxes, t) ==
    AfterVerification(c, e, current_state, _identify_current_state(c, e, bounding_boxes),
                      bounding_boxes, t)

\* [action, new_state: the returned pair; e: the engine after the call;
\*  verified, via: the verified state and the return statement taken]
determine_next_action(c, e, current_state, bounding_boxes, t) ==
    AfterEntry(c, EnterState(e, current_state, t), current_state, bounding_boxes, t)

----------------------------------------------------------------------------
(* Criteria and state definitions given to the matcher *)

CritPlayButton == [type |-> "button", text |-> TxtPlay]
CritPlayAnywhere == [type |-> "any", text |-> <<"p", "l", "a", "y">>, text_match |-> "contains"]
CritSureOK == [text |-> TxtOK, required_confidence |-> 96]
CritAnything == [type |-> "any", text |-> <<>>]
CritFpsPrefix == [type |-> "text", text |-> <<"f", "p">>, text_match |-> "startswith"]
CritBang == [text |-> <<"!">>, text_match |-> "endswith"]
CritOKButton == [type |-> "button", text |-> TxtOK]

Criteria ==
    {CritPlayButton, CritPlayAnywhere, CritSureOK, CritAnything, CritFpsPrefix, CritBang}

ExcludeCriteria == {CritOKButton, CritBang, CritFpsPrefix}

StateDefs ==
    {[required_elements |-> r, exclude_elements |-> x] :
        r \in SeqsUpTo(Criteria, MaxCriteria), x \in SeqsUpTo(ExcludeCriteria, 1)}
    \cup {[required_elements |-> r] : r \in SeqsUpTo(Criteria, 1)}
    \cup {[exclude_elements |-> x] : x \in SeqsUpTo(ExcludeCriteria, 1)}

----------------------------------------------------------------------------
(* State-machine configurations *)

\* initial -> menu -> target, menu recognised by its Play button
CfgMenu ==
    [kind |-> "state_machine",
     states |-> <<
        [name |-> "menu",
         def |-> [required_elements |-> <<CritPlayButton>>, timeout |-> 5]],
        [name |-> "target",
         def |-> [required_elements |-> <<CritFpsPrefix>>,
                  exclude_elements |-> <<CritOKButton>>]] >>,
     transitions |-> <<
        [from |-> "initial", to |-> "menu",
         def |-> [action |-> "key", key |-> "enter"]],
        [from |-> "menu", to |-> "target",
         def |-> [action |-> "click", target |-> CritPlayButton, expected_delay |-> 2]] >>,
     fallbacks |-> EmptyDict,
     initial_state |-> "initial",
     target_state |-> "target"]

\* a benchmark flow with two states sharing visual cues and a dead-end
\* state; while the benchmark runs the flow may wait in place
CfgBench ==
    [kind |-> "state_machine",
     states |-> <<
        [name |-> "benchmark_running",
         def |-> [required_elements |-> <<CritAnything>>,
                  exclude_elements |-> <<CritOKButton>>]],
        [name |-> "benchmark_complete",
         def |-> [required_elements |-> <<CritFpsPrefix>>]],
        [name |-> "dialog",
         def |-> [required_elements |-> <<CritOKButton>>, timeout |-> 5]] >>,
     transitions |-> <<
        [from |-> "initial", to |-> "benchmark_running",
         def |-> [action |-> "wait", duration |-> 2]],
        [from |-> "benchmark_running", to |-> "initial",
         def |-> [action |-> "key", key |-> "f5"]],
        [from |-> "benchmark_running", to |-> "benchmark_complete",
         def |-> [action |-> "wait", duration |-> 1]],
        [from |-> "benchmark_running", to |-> "benchmark_running",
         def |-> [action |-> "wait", duration |-> 3]] >>,
     fallbacks |-> [general |-> Click(1, 1), dialog |-> [type |-> "key", key |-> "enter"]],
     initial_state |-> "initial",
     target_state |-> "benchmark_complete"]

\* a flow declared to start at its menu: nothing leaves "initial", the
\* state the control loop starts in
CfgNoEntry ==
    [kind |-> "state_machine",
     states |-> <<
        [name |-> "menu",
         def |-> [required_elements |-> <<CritPlayButton>>]],
        [name |-> "target",
         def |-> [required_elements |-> <<CritFpsPrefix>>]] >>,
     transitions |-> <<
        [from |-> "menu", to |-> "target",
         def |-> [action |-> "click", target |-> CritPlayButton]] >>,
     fallbacks |-> [general |-> [type |-> "key", key |-> "escape"]],
     initial_state |-> "menu",
     target_state |-> "target"]

\* a flow of click transitions: coordinates found on the screen, declared as
\* a fallback, or hardcoded; its fallbacks section has an entry left empty
CfgClicks ==
    [kind |-> "state_machine",
     states |-> <<
        [name |-> "menu",
         def |-> [required_elements |-> <<CritPlayButton>>,
                  exclude_elements |-> <<CritOKButton>>]],
        [name |-> "settings",
         def |-> [required_elements |-> <<CritSureOK>>,
                  exclude_elements |-> <<CritBang>>]],
        [name |-> "target",
         def |-> [required_elements |-> <<CritFpsPrefix>>]] >>,
     transitions |-> <<
        [from |-> "initial", to |-> "menu",
         def |-> [action |-> "click", target |-> CritAnything,
                  fallback_coords |-> [x |-> 7, y |-> 8]]],
        [from |-> "menu", to |-> "target",
         def |-> [action |-> "click", target |-> CritPlayAnywhere]],
        [from |-> "settings", to |-> "menu",
         def |-> [action |-> "click", target |-> CritOKButton,
                  hardcoded_coords |-> [x |-> 3, y |-> 4]]] >>,
     fallbacks |-> [settings |-> EmptyDict],
     initial_state |-> "initial",
     target_state |-> "target"]

FsmConfigs == {CfgMenu, CfgBench, CfgNoEntry, CfgClicks}

\* element lists a detector reports to the engine
Screens ==
    {<<>>, <<BoxPlay>>, <<BoxFPS>>, <<BoxOK, BoxPlay>>, <<BoxIcon, BoxFPS>>,
     <<BoxPlayFaint, BoxPlay>>}

\* element lists handed to a query: the detector's, a results screen that
\* shows a score and no frame rate, and a menu drawn over a frame counter
QueryScreens == Screens \cup {<<BoxScore>>, <<BoxPlay, BoxFPS>>}

\* state names a caller may pass as current_state
CallStates(c) ==
    {c.states[i].name : i \in 1..Len(c.states)} \cup {"initial", "unknown", c.target_state}

----------------------------------------------------------------------------
(* Idle values of the parts of the state a specification does not use *)

NoProbe == [op |-> "none"]

IdleWorkers == EmptyDict

IdleAState == [running |-> FALSE, status |-> "Ready", stop_event |-> 0]

----------------------------------------------------------------------------
(* The matcher as a query: inputs drawn at Init, applied once *)

InitMatch ==
    /\ cfg = EmptyDict
    /\ now = 1
    /\ eng = NewEngine
    /\ \E d \in StateDefs, b \in BoxLists :
          probe = [op |-> "find", state_def |-> d, bounding_boxes |-> b,
                   done |-> FALSE, result |-> NoBox]
    /\ calls = 0
    /\ w = IdleWorkers
    /\ events = <<>>
    /\ astate = IdleAState
    /\ starts = 0

ApplyFind ==
    /\ probe.op = "find"
    /\ ~probe.done
    /\ probe' = [probe EXCEPT !.done = TRUE,
                              !.result = FindMatchingElement(probe.state_def,
                                                             probe.bounding_boxes)]
    /\ UNCHANGED <<cfg, now, eng, calls, w, events, astate, starts>>

NextMatch == ApplyFind

SpecMatch == InitMatch /\ [][NextMatch]_vars

----------------------------------------------------------------------------
(* The engine driven call by call *)

InitEngine ==
    /\ cfg \in FsmConfigs
    /\ now = 1
    /\ eng = NewEngine
    /\ probe = NoProbe
    /\ calls = 0
    /\ w = IdleWorkers
    /\ events = <<>>
    /\ astate = IdleAState
    /\ starts = 0

\* a call as seen from outside: its arguments, the engine before and after,
\* what it returned
Observed(current_state, bounding_boxes, before, r) ==
    [op |-> "determine_next_action",
     current_state |-> current_state,
     bounding_boxes |-> bounding_boxes,
     action |-> r.action,
     new_state |-> r.new_state,
     verified |-> r.verified,
     before |-> before,
     after |-> r.e]

DetermineNextAction ==
    /\ calls < MaxCalls
    /\ \E current_state \in CallStates(cfg), bounding_boxes \in Screens, d \in {0, 1} :
          /\ now' = now + d
          /\ probe' = Observed(current_state, bounding_boxes, eng,
                               determine_next_action(cfg, eng, current_state,
                                                     bounding_boxes, now + d))
          /\ eng' = probe'.after
    /\ calls' = calls + 1
    /\ UNCHANGED <<cfg, w, events, astate, starts>>

\* a query that stores its answer in the history
IdentifyEffect_Records(e, state) ==
    [e EXCEPT !.state_history = Append(@, state),
              !.visited_states = @ \cup {state}]

\* the engine after _identify_current_state has returned state: lines
\* 173-229 assign to no attribute of the engine
IdentifyEffect(e, state) == e

\* a direct call of _identify_current_state: after a decision with any
\* element list, after a query as its repetition with the same list
IdentifyCurrentState ==
    /\ \E bounding_boxes \in QueryScreens :
          LET state == _identify_current_state(cfg, eng, bounding_boxes)
          IN /\ probe.op = "identify" => bounding_boxes = probe.bounding_boxes
             /\ probe' = [op |-> "identify",
                          bounding_boxes |-> bounding_boxes,
                          result |-> state,
                          before |-> eng,
                          after |-> IdentifyEffect(eng, state)]
             /\ eng' = IdentifyEffect(eng, state)
    /\ UNCHANGED <<cfg, now, calls, w, events, astate, starts>>

NextEngine == DetermineNextAction

SpecEngine == InitEngine /\ [][NextEngine]_vars

\* the engine is driven by decisions and then queried any number of times:
\* a query leaves in eng what the decision before it left, so a decision
\* taken after a query is the decision taken without it
DecideThenQuery ==
    /\ probe.op # "identify"
    /\ DetermineNextAction

NextQuery ==
    \/ DecideThenQuery
    \/ IdentifyCurrentState

SpecQuery == InitEngine /\ [][NextQuery]_vars

\* the engine after get_fallback_action has returned: lines 443-467 assign
\* to no attribute of the engine
FallbackEffect(e) == e

\* a direct call of get_fallback_action, at any time between the decisions
GetFallbackAction ==
    /\ \E current_state \in CallStates(cfg) \cup {"general"} :
          probe' = [op |-> "get_fallback_action",
                    current_state |-> current_state,
                    action |-> get_fallback_action(cfg, current_state),
                    before |-> eng,
                    after |-> FallbackEffect(eng)]
    /\ eng' = FallbackEffect(eng)
    /\ UNCHANGED <<cfg, now, calls, w, events, astate, starts>>

NextFallback ==
    \/ DetermineNextAction
    \/ GetFallbackAction

SpecFallback == InitEngine /\ [][NextFallback]_vars

----------------------------------------------------------------------------
(* SimpleAutomation: matcher and modular actions *)

\* SimpleAutomation._find_matching_element: first element matching type and text
SA_find_matching_element(target_def, bounding_boxes) ==
    LET target_type == Get(target_def, "type", "any")
        hits == {j \in 1..Len(bounding_boxes) :
                    /\ (target_type = "any" \/ bounding_boxes[j].element_type = target_type)
                    /\ TextMatch(Get(target_def, "text", <<>>),
                                 bounding_boxes[j].element_text,
                                 Get(target_def, "text_match", "contains"))}
    IN IF hits = {} THEN NoBox
       ELSE bounding_boxes[CHOOSE j \in hits : \A k \in hits : j <= k]

----------------------------------------------------------------------------
(* The two matchers side by side: one query of either, inputs drawn at Init *)

\* ways of writing the criterion that asks for nothing: type any or left
\* out, text empty or left out, with or without a threshold of its own
CritAnyType == [type |-> "any"]
CritAnythingLow == [type |-> "any", text |-> <<>>, required_confidence |-> 40]
AnyCriteria == {CritAnything, CritAnyType, EmptyDict, CritAnythingLow}

AnyDefs ==
    {[required_elements |-> <<c>>, exclude_elements |-> x] :
        c \in AnyCriteria, x \in SeqsUpTo(ExcludeCriteria, 1)}
    \cup {[required_elements |-> <<c>>] : c \in AnyCriteria}

InitMatchers ==
    /\ cfg = EmptyDict
    /\ now = 1
    /\ eng = NewEngine
    /\ \/ \E d \in AnyDefs \cup {[required_elements |-> <<c>>] : c \in Criteria},
             b \in BoxLists :
             probe = [op |-> "find", state_def |-> d, bounding_boxes |-> b,
                      done |-> FALSE, result |-> NoBox]
       \/ \E t \in AnyCriteria \cup Criteria, b \in BoxLists :
             probe = [op |-> "simple_find", target_def |-> t, bounding_boxes |-> b,
                      done |-> FALSE, result |-> NoBox]
    /\ calls = 0
    /\ w = IdleWorkers
    /\ events = <<>>
    /\ astate = IdleAState
    /\ starts = 0

ApplySimpleFind ==
    /\ probe.op = "simple_find"
    /\ ~probe.done
    /\ probe' = [probe EXCEPT !.done = TRUE,
                              !.result = SA_find_matching_element(probe.target_def,
                                                                  probe.bounding_boxes)]
    /\ UNCHANGED <<cfg, now, eng, calls, w, events, astate, starts>>

NextMatchers ==
    \/ ApplyFind
    \/ ApplySimpleFind

SpecMatchers == InitMatchers /\ [][NextMatchers]_vars

key_mapping(key) ==
    CASE key = "enter" -> "Return"
      [] key = "return" -> "Return"
      [] key = "escape" -> "Escape"
      [] key = "esc" -> "Escape"
      [] OTHER -> key

\* _handle_click_action: centre of the found element, else the configured point
ClickDict(action_config, target_element) ==
    LET x == IF target_element # NoBox
             THEN target_element.x + (target_element.width \div 2)
             ELSE Get(action_config, "x", 0)
        y == IF target_element # NoBox
             THEN target_element.y + (target_element.height \div 2)
             ELSE Get(action_config, "y", 0)
    IN [type |-> "click",
        x |-> x + Get(action_config, "offset_x", 0),
        y |-> y + Get(action_config, "offset_y", 0),
        button |-> Get(action_config, "button", "left")]

\* an action given as a plain string
SimpleAction(name) == [simple |-> name]

\* _execute_modular_action(action_config, target_element, _) when the first
\* ok_left calls of network.send_action succeed and the next one raises:
\* [ok: the handler's return value, sent: the send_action calls begun]
RECURSIVE _execute_modular_action(_, _, _)
RECURSIVE _handle_sequence_action(_, _, _, _)
_execute_modular_action(action_config, target_element, ok_left) ==
    LET action_type == Get(action_config, "type", "")
        key == Get(action_config, "key", "")
        if_action == Get(action_config, "if_true", EmptyDict)
        else_action == Get(action_config, "if_false", EmptyDict)
    IN IF "simple" \in DOMAIN action_config
       THEN [ok |-> action_config.simple = "wait", sent |-> <<>>]
       ELSE IF action_type = "click"
            THEN [ok |-> ok_left > 0, sent |-> <<ClickDict(action_config, target_element)>>]
       ELSE IF action_type \in {"key", "keypress"}
            THEN IF key = "" THEN [ok |-> FALSE, sent |-> <<>>]
                 ELSE [ok |-> ok_left > 0,
                       sent |-> <<[type |-> "key", key |-> key_mapping(key)]>>]
       ELSE IF action_type = "wait"
            THEN [ok |-> TRUE, sent |-> <<>>]
       ELSE IF action_type = "conditional"
            THEN IF target_element # NoBox /\ Truthy(if_action)
                 THEN _execute_modular_action(if_action, target_element, ok_left)
                 ELSE IF target_element = NoBox /\ Truthy(else_action)
                      THEN _execute_modular_action(else_action, target_element, ok_left)
                      ELSE [ok |-> TRUE, sent |-> <<>>]
       ELSE IF action_type = "sequence"
            THEN _handle_sequence_action(Get(action_config, "actions", <<>>), 1,
                                         target_element, ok_left)
       ELSE [ok |-> FALSE, sent |-> <<>>]

_handle_sequence_action(actions, i, target_element, ok_left) ==
    IF i > Len(actions) THEN [ok |-> TRUE, sent |-> <<>>]
    ELSE LET first == _execute_modular_action(actions[i], target_element, ok_left)
             rest == _handle_sequence_action(actions, i + 1, target_element,
                                             ok_left - Len(first.sent))
         IN IF ~first.ok THEN first
            ELSE [ok |-> rest.ok, sent |-> first.sent \o rest.sent]

\* the fallback that presses Escape whatever the configuration declares
FallbackSent_AlwaysEscape(c, ok_left) ==
    <<[type |-> "key", key |-> "Escape"]>>

\* _execute_fallback: the general fallback, else an Escape key press; a
\* failure of the dispatch is swallowed
FallbackSent(c, ok_left) ==
    LET fallback == Get(Get(c, "fallbacks", EmptyDict), "general", EmptyDict)
    IN IF Truthy(fallback)
       THEN _execute_modular_action(fallback, NoBox, ok_left).sent
       ELSE <<[type |-> "key", key |-> "Escape"]>>

\* the verification that is content with one criterion found
VerifyAll_AnyOne(step, verify_boxes) ==
    \E i \in 1..Len(step.verify_success) :
        SA_find_matching_element(step.verify_success[i], verify_boxes) # NoBox

\* lines 641-647: every criterion of verify_success is looked up in the
\* elements of the verification screenshot
VerifyAll(step, verify_boxes) ==
    \A i \in 1..Len(step.verify_success) :
        SA_find_matching_element(step.verify_success[i], verify_boxes) # NoBox

\* _verify_step_success: a fresh capture and detection, either of which may
\* raise (lines 630-632, 649-651), then the lookup
_verify_step_success(step, observed, verify_boxes) ==
    observed = "ok" /\ VerifyAll(step, verify_boxes)

\* _handle_optional_steps after a successful observation: the optional steps
\* are tried in declaration order until one's action succeeds; each triggered
\* action takes its own outcome from ok_left
RECURSIVE OptionalFrom(_, _, _, _)
OptionalFrom(optional_steps, i, optional_boxes, ok_left) ==
    IF i > Len(optional_steps) THEN [handled |-> FALSE, sent |-> <<>>]
    ELSE LET step_config == optional_steps[i].config
             triggered == SA_find_matching_element(Get(step_config, "trigger", EmptyDict),
                                                   optional_boxes) # NoBox
             r == _execute_modular_action(step_config.action, NoBox, ok_left)
             rest == OptionalFrom(optional_steps, i + 1, optional_boxes,
                                  IF triggered THEN ok_left - Len(r.sent) ELSE ok_left)
         IN IF triggered /\ r.ok THEN [handled |-> TRUE, sent |-> r.sent]
            ELSE IF triggered THEN [handled |-> rest.handled, sent |-> r.sent \o rest.sent]
            ELSE rest

----------------------------------------------------------------------------
(* Step-based configurations *)

StepFindOK ==
    [description |-> "ok", find |-> [text |-> TxtOK],
     action |-> [type |-> "click"]]

StepPressEnter ==
    [action |-> [type |-> "key", key |-> "enter"], expected_delay |-> 0]

StepPlayVerified ==
    [find |-> [type |-> "button", text |-> TxtPlay, text_match |-> "exact"],
     action |-> [type |-> "sequence",
                 actions |-> <<[type |-> "click", offset_x |-> 1],
                               [type |-> "key", key |-> "esc"]>>],
     verify_success |-> <<[text |-> TxtOK], [type |-> "text"]>>]

StepPool == {StepFindOK, StepPressEnter, StepPlayVerified}

OptionalPopup ==
    <<[name |-> "popup",
       config |-> [trigger |-> [type |-> "icon"],
                   action |-> [type |-> "key", key |-> "escape"]]]>>

\* steps keyed 1..n, each drawn from the pool, with or without the optional
\* popup handler and the general fallback
StepConfigs ==
    {[kind |-> "steps", steps |-> st, optional_steps |-> v.op, fallbacks |-> v.fb] :
        st \in UNION {[1..n -> StepPool] : n \in 1..MaxSteps},
        v \in {[op |-> <<>>, fb |-> EmptyDict],
               [op |-> OptionalPopup,
                fb |-> [general |-> [type |-> "click", x |-> 5, y |-> 5]]]}}

\* a configuration whose step keys are not contiguous
CfgGap ==
    [kind |-> "steps", steps |-> (1 :> StepPressEnter) @@ (3 :> StepPressEnter),
     optional_steps |-> <<>>, fallbacks |-> EmptyDict]

LinearConfigs == StepConfigs \cup {CfgGap}

\* what the detector may report to the linear executor
LinearScreens == {<<>>, <<BoxOK, BoxFPS>>, <<BoxPlay>>, <<BoxIcon, BoxOK>>}

----------------------------------------------------------------------------
(* SimpleAutomation.run, one thread t.  The loop is cut at its blocking    *)
(* external calls, so that stop_event.set() can fall between them.         *)

max_retries == 3

\* the retry test comparing with > instead of >=
RetriesExhausted_Late(retries) == retries > max_retries

\* lines 103, 113, 135
RetriesExhausted(retries) == retries >= max_retries

\* the loop test excluding the last step
LoopContinues_Short(current_step, n) == current_step < n

\* line 76
LoopContinues(current_step, n) == current_step <= n

NoSends == [src |-> "none", step |-> 0, sent |-> <<>>]

\* a worker thread entering SimpleAutomation.run with the stop event it was
\* constructed with
NewRun(th, ev) ==
    [kind |-> "steps", pc |-> "loop", stop_event |-> ev,
     settings |-> th.settings,
     current_step |-> 1, retries |-> 0,
     result |-> "running",
     raised |-> FALSE, stopped_at |-> th.stopped_at, final |-> "",
     \* history of the run, not program state: attempts made at the current
     \* step, index advances, whether any attempt failed, the send_action
     \* calls of the last action and of the step and fallback actions of the
     \* whole run while no attempt has failed, whether a blocking call
     \* returned with the stop flag set and the next blocking call was begun
     \* without looking at the flag, whether the loop was left by the stop
     \* check, optional interrupts handled (counted up to MaxOptionals)
     attempts |-> 0, advances |-> 0, failed |-> FALSE,
     last |-> NoSends, log |-> <<>>,
     late |-> FALSE, broke |-> FALSE, optionals |-> 0]

IsSet(ev) == ev # 0 /\ events[ev]

Running(t, pc) == t \in DOMAIN w /\ w[t].kind = "steps" /\ w[t].pc = pc

\* one execution of an action: where it came from, the step index at the
\* time, the send_action calls it made
Sent(r, src, sent) ==
    LET run == [src |-> src, step |-> r.current_step, sent |-> sent]
    IN [r EXCEPT !.last = run,
                 !.log = IF r.failed THEN <<>>
                         ELSE IF src = "optional" THEN @
                         ELSE Append(@, run)]

\* a step failure: lines 133-138
StepFailed(r) ==
    LET r1 == [r EXCEPT !.retries = @ + 1, !.failed = TRUE, !.log = <<>>]
    IN IF RetriesExhausted(r1.retries)
       THEN [r1 EXCEPT !.pc = "returned", !.result = "false"]
       ELSE [r1 EXCEPT !.pc = "fallback"]

\* a step success that leaves the retry counter as it is
StepSucceeded_KeepsRetries(r) ==
    [r EXCEPT !.current_step = @ + 1, !.pc = "loop",
              !.advances = @ + 1, !.attempts = 0]

\* a step success: lines 129-131
StepSucceeded(r) ==
    [r EXCEPT !.current_step = @ + 1, !.retries = 0, !.pc = "loop",
              !.advances = @ + 1, !.attempts = 0]

\* lines 76-94: loop test, missing key, stop check
LinLoopHead(t) ==
    /\ Running(t, "loop")
    /\ LET r == w[t]
           n == Cardinality(DOMAIN cfg.steps)
       IN w' = [w EXCEPT ![t] =
            IF ~LoopContinues(r.current_step, n)
            THEN [r EXCEPT !.pc = "returned",
                           !.result = IF r.current_step > n THEN "true" ELSE "false"]
            ELSE IF r.current_step \notin DOMAIN cfg.steps
                 THEN [r EXCEPT !.pc = "returned", !.result = "false"]
            ELSE IF IsSet(r.stop_event)
                 THEN [r EXCEPT !.pc = "returned", !.broke = TRUE,
                                !.result = IF r.current_step > n THEN "true" ELSE "false"]
            ELSE IF cfg.optional_steps = <<>>
                 THEN [r EXCEPT !.pc = "capture"]
                 ELSE [r EXCEPT !.pc = "optional"]]
    /\ UNCHANGED <<cfg, now, eng, probe, calls, events, astate, starts>>

\* the optional interrupt counted as a retry of the current step
LinOptional_CountsRetry(t) ==
    /\ Running(t, "optional")
    /\ \E observed \in {"capture raises", "detect raises", "ok"},
          optional_boxes \in LinearScreens, ok_left \in 0..1 :
          LET r == w[t]
              o == OptionalFrom(cfg.optional_steps, 1, optional_boxes, ok_left)
              r1 == [r EXCEPT !.late = @ \/ IsSet(r.stop_event)]
          IN w' = [w EXCEPT ![t] =
                IF observed # "ok" THEN [r1 EXCEPT !.pc = "capture"]
                ELSE IF o.handled
                     THEN [Sent(r1, "optional", o.sent) EXCEPT
                              !.pc = "loop", !.retries = @ + 1,
                              !.optionals = IF @ < MaxOptionals THEN @ + 1 ELSE @]
                     ELSE [Sent(r1, "optional", o.sent) EXCEPT !.pc = "capture"]]
    /\ UNCHANGED <<cfg, now, eng, probe, calls, events, astate, starts>>

\* lines 92-94 with _handle_optional_steps: observe, run the first triggered
\* optional action; any exception is swallowed
LinOptional(t) ==
    /\ Running(t, "optional")
    /\ \E observed \in {"capture raises", "detect raises", "ok"},
          optional_boxes \in LinearScreens, ok_left \in 0..1 :
          LET r == w[t]
              o == OptionalFrom(cfg.optional_steps, 1, optional_boxes, ok_left)
              r1 == [r EXCEPT !.late = @ \/ IsSet(r.stop_event)]
          IN w' = [w EXCEPT ![t] =
                IF observed # "ok" THEN [r1 EXCEPT !.pc = "capture"]
                ELSE IF o.handled
                     THEN [Sent(r1, "optional", o.sent) EXCEPT
                              !.pc = "loop",
                              !.optionals = IF @ < MaxOptionals THEN @ + 1 ELSE @]
                     ELSE [Sent(r1, "optional", o.sent) EXCEPT !.pc = "capture"]]
    /\ UNCHANGED <<cfg, now, eng, probe, calls, events, astate, starts>>

\* the attempt with the action dispatched before the result of the find
\* is looked at
LinAttempt_ActsBeforeFind(t) ==
    /\ Running(t, "capture")
    /\ \E observed \in {"capture raises", "detect raises", "ok"},
          bounding_boxes \in LinearScreens, ok_left \in 0..MaxSends :
          LET r == [w[t] EXCEPT !.attempts = @ + 1,
                                !.late = @ \/ (IsSet(w[t].stop_event)
                                               /\ observed # "capture raises")]
              r0 == [r EXCEPT !.retries = @ + 1, !.failed = TRUE, !.log = <<>>,
                              !.last = NoSends, !.raised = TRUE]
              step == cfg.steps[r.current_step]
              target_element == IF "find" \in DOMAIN step
                                THEN SA_find_matching_element(step.find, bounding_boxes)
                                ELSE NoBox
              a == _execute_modular_action(step.action, target_element, ok_left)
              r1 == [Sent(r, "step", a.sent) EXCEPT
                         !.raised = @ \/ Len(a.sent) > ok_left]
              r2 == [r EXCEPT !.last = NoSends]
          IN w' = [w EXCEPT ![t] =
                IF observed # "ok"
                THEN IF RetriesExhausted(r0.retries)
                     THEN [r0 EXCEPT !.pc = "returned", !.result = "false"]
                     ELSE [r0 EXCEPT !.pc = "loop"]
                ELSE IF "find" \in DOMAIN step /\ target_element = NoBox THEN StepFailed(r1)
                ELSE IF "action" \notin DOMAIN step THEN StepFailed(r2)
                ELSE IF ~a.ok THEN StepFailed(r1)
                ELSE IF "verify_success" \in DOMAIN step THEN [r1 EXCEPT !.pc = "verify"]
                ELSE StepSucceeded(r1)]
    /\ UNCHANGED <<cfg, now, eng, probe, calls, events, astate, starts>>

\* lines 96-126 with _process_step_modular up to the expected delay:
\* capture and detect (each failure counted as a retry), find, the action
LinAttempt(t) ==
    /\ Running(t, "capture")
    /\ \E observed \in {"capture raises", "detect raises", "ok"},
          bounding_boxes \in LinearScreens, ok_left \in 0..MaxSends :
          LET r == [w[t] EXCEPT !.attempts = @ + 1,
                                !.late = @ \/ (IsSet(w[t].stop_event)
                                               /\ observed # "capture raises")]
              r0 == [r EXCEPT !.retries = @ + 1, !.failed = TRUE, !.log = <<>>,
                              !.last = NoSends, !.raised = TRUE]
              step == cfg.steps[r.current_step]
              target_element == IF "find" \in DOMAIN step
                                THEN SA_find_matching_element(step.find, bounding_boxes)
                                ELSE NoBox
              a == _execute_modular_action(step.action, target_element, ok_left)
              r1 == [Sent(r, "step", a.sent) EXCEPT
                         !.raised = @ \/ Len(a.sent) > ok_left]
              r2 == [r EXCEPT !.last = NoSends]
          IN w' = [w EXCEPT ![t] =
                IF observed # "ok"
                THEN IF RetriesExhausted(r0.retries)
                     THEN [r0 EXCEPT !.pc = "returned", !.result = "false"]
                     ELSE [r0 EXCEPT !.pc = "loop"]
                ELSE IF "find" \in DOMAIN step /\ target_element = NoBox THEN StepFailed(r2)
                ELSE IF "action" \notin DOMAIN step THEN StepFailed(r2)
                ELSE IF ~a.ok THEN StepFailed(r1)
                ELSE IF "verify_success" \in DOMAIN step THEN [r1 EXCEPT !.pc = "verify"]
                ELSE StepSucceeded(r1)]
    /\ UNCHANGED <<cfg, now, eng, probe, calls, events, astate, starts>>

\* _verify_step_success after the expected delay: a fresh observation
LinVerify(t) ==
    /\ Running(t, "verify")
    /\ \E observed \in {"capture raises", "detect raises", "ok"},
          verify_boxes \in LinearScreens :
          LET r == [w[t] EXCEPT !.late = @ \/ (IsSet(w[t].stop_event)
                                               /\ observed # "capture raises"),
                                !.raised = @ \/ observed # "ok"]
              step == cfg.steps[r.current_step]
          IN w' = [w EXCEPT ![t] =
                IF _verify_step_success(step, observed, verify_boxes)
                THEN StepSucceeded(r)
                ELSE StepFailed(r)]
    /\ UNCHANGED <<cfg, now, eng, probe, calls, events, astate, starts>>

\* line 138: _execute_fallback
LinFallback(t) ==
    /\ Running(t, "fallback")
    /\ \E ok_left \in 0..1 :
          LET r == w[t]
              sent == FallbackSent(cfg, ok_left)
          IN w' = [w EXCEPT ![t] =
                [Sent(r, "fallback", sent) EXCEPT !.pc = "loop"]]
    /\ UNCHANGED <<cfg, now, eng, probe, calls, events, astate, starts>>

----------------------------------------------------------------------------
(* Verification as a query: a step, the elements seen before its action,  *)
(* and the outcome of the fresh observation are drawn at Init             *)

VerifiedSteps ==
    {[action |-> [type |-> "key", key |-> "enter"], verify_success |-> v] :
        v \in SeqsUpTo(Criteria, MaxCriteria)}

InitVerify ==
    /\ cfg = EmptyDict
    /\ now = 1
    /\ eng = NewEngine
    /\ \E step \in VerifiedSteps, bounding_boxes \in LinearScreens,
          observed \in {"capture raises", "detect raises", "ok"},
          verify_boxes \in LinearScreens :
          probe = [op |-> "verify", step |-> step, bounding_boxes |-> bounding_boxes,
                   observed |-> observed, verify_boxes |-> verify_boxes,
                   done |-> FALSE, result |-> FALSE]
    /\ calls = 0
    /\ w = IdleWorkers
    /\ events = <<>>
    /\ astate = IdleAState
    /\ starts = 0

\* lines 175-176: the verification of a step that declares verify_success
ApplyVerify ==
    /\ probe.op = "verify"
    /\ ~probe.done
    /\ "verify_success" \in DOMAIN probe.step
    /\ probe' = [probe EXCEPT !.done = TRUE,
                              !.result = _verify_step_success(probe.step, probe.observed,
                                                              probe.verify_boxes)]
    /\ UNCHANGED <<cfg, now, eng, calls, w, events, astate, starts>>

NextVerify == ApplyVerify

SpecVerify == InitVerify /\ [][NextVerify]_vars

----------------------------------------------------------------------------
(* _run_state_machine_automation, one thread t, cut at its blocking calls  *)

max_time_in_state == 60

\* seconds a screenshot capture plus an element detection may take
Elapsed == {0, 4, 59}

\* the timeout test ignoring the state's declared timeout
StateTimeout_Default(c, current_state) == max_time_in_state

\* web_app.py lines 660-661
StateTimeout(c, current_state) ==
    Get(get_state_definition(c, current_state), "timeout", max_time_in_state)

\* config.get("transitions", {}).get(key, {}).get("expected_delay", 1)
TransitionDelay(c, previous_state, current_state) ==
    IF HasTransition(c, previous_state, current_state)
    THEN Get(TransitionDef(c, previous_state, current_state), "expected_delay", 1)
    ELSE 1

NoIteration == [what |-> "none", action |-> EmptyDict]

\* a worker thread entering the control loop at time t0
NewFsm(th, t0) ==
    [kind |-> "state_machine", pc |-> "loop",
     settings |-> th.settings,
     iteration |-> 0, current_state |-> "initial", state_start_time |-> t0,
     e |-> NewEngine,
     next_action |-> EmptyDict, new_state |-> "", executes |-> FALSE,
     result |-> "running",
     raised |-> FALSE, stopped_at |-> th.stopped_at, final |-> "",
     \* history: what the last iteration did, whether a blocking call
     \* returned with the stop flag set and the next was begun unchecked, and
     \* whether _identify_current_state has returned the target state
     last |-> NoIteration, late |-> FALSE, recognised |-> FALSE]

InLoop(t, pc) == t \in DOMAIN w /\ w[t].kind = "state_machine" /\ w[t].pc = pc

\* the while condition letting one iteration more through
LoopCondition_Inclusive(r) ==
    /\ r.current_state # cfg.target_state
    /\ r.iteration <= r.settings.max_iterations
    /\ ~IsSet(astate.stop_event)

\* the while condition, lines 653-655
LoopCondition(r) ==
    /\ r.current_state # cfg.target_state
    /\ r.iteration < r.settings.max_iterations
    /\ ~IsSet(astate.stop_event)

\* the return value after the loop, lines 756-767
LoopResult(r) == IF r.current_state = cfg.target_state THEN "true" ELSE "false"

\* the except clause at line 772
Raised(r) == [r EXCEPT !.pc = "returned", !.result = "false", !.raised = TRUE]

\* lines 653-683: the loop test, then either the timeout branch (fallback
\* dispatched, two seconds slept, timer reset, next iteration) or the start
\* of the screenshot capture
FsmLoopHead(t) ==
    /\ InLoop(t, "loop")
    /\ LET r == w[t]
           r1 == [r EXCEPT !.iteration = @ + 1]
           time_in_state == now - r.state_start_time
           fallback_action == get_fallback_action(cfg, r.current_state)
           r2 == [r1 EXCEPT !.last = [what |-> "timeout", action |-> fallback_action]]
       IN IF ~LoopCondition(r)
          THEN /\ w' = [w EXCEPT ![t] = [r EXCEPT !.pc = "returned",
                                                  !.result = LoopResult(r)]]
               /\ now' = now
          ELSE IF time_in_state > StateTimeout(cfg, r.current_state)
               THEN \/ /\ w' = [w EXCEPT ![t] = Raised(r2)]
                       /\ now' = now
                    \/ /\ now + 2 <= MaxNow
                       /\ now' = now + 2
                       /\ w' = [w EXCEPT ![t] = [r2 EXCEPT !.state_start_time = now + 2]]
               ELSE /\ w' = [w EXCEPT ![t] = [r1 EXCEPT !.pc = "capture"]]
                    /\ now' = now
    /\ UNCHANGED <<cfg, eng, probe, calls, events, astate, starts>>

\* lines 683-689: the capture returns or raises; detection starts
FsmCaptured(t) ==
    /\ InLoop(t, "capture")
    /\ \E captured \in {"ok", "raises"} :
          w' = [w EXCEPT ![t] =
                IF captured = "raises" THEN Raised(w[t])
                ELSE [w[t] EXCEPT !.pc = "detect",
                                  !.late = @ \/ IsSet(astate.stop_event)]]
    /\ UNCHANGED <<cfg, now, eng, probe, calls, events, astate, starts>>

\* lines 699-716: the engine's answer is kept for the dispatch, which takes
\* place if there is an action and the stop flag is clear
Decided(r, res) ==
    [r EXCEPT !.pc = "act",
              !.e = res.e,
              !.next_action = res.action,
              !.new_state = res.new_state,
              !.executes = Truthy(res.action) /\ ~IsSet(astate.stop_event),
              !.last = [what |-> res.via, action |-> res.action],
              !.recognised = @ \/ res.verified = cfg.target_state]

\* lines 689-716: detection returns or raises; the engine decides; the
\* action is dispatched if there is one and the stop flag is clear
FsmDetected(t) ==
    /\ InLoop(t, "detect")
    /\ \E detected \in {"ok", "raises"}, bounding_boxes \in Screens, d \in Elapsed :
          /\ now + d <= MaxNow
          /\ now' = now + d
          /\ w' = [w EXCEPT ![t] =
                   IF detected = "raises" THEN Raised(w[t])
                   ELSE Decided(w[t], determine_next_action(cfg, w[t].e, w[t].current_state,
                                                            bounding_boxes, now + d))]
    /\ UNCHANGED <<cfg, eng, probe, calls, events, astate, starts>>

\* lines 716-753: a wait is slept locally, any other action returns from the
\* SUT or raises; the state is updated, the timer reset on a change of state,
\* the transition's delay slept
FsmActed(t) ==
    /\ InLoop(t, "act")
    /\ \E sent \in {"ok", "raises"} :
          LET r == w[t]
              is_wait == Get(r.next_action, "type", "") = "wait"
              waited == IF r.executes /\ is_wait /\ ~IsSet(astate.stop_event)
                        THEN Get(r.next_action, "duration", 1) ELSE 0
              delay == TransitionDelay(cfg, r.current_state, r.new_state)
          IN IF r.executes /\ ~is_wait /\ sent = "raises"
             THEN /\ w' = [w EXCEPT ![t] = Raised(r)]
                  /\ now' = now
             ELSE /\ now + waited + delay <= MaxNow
                  /\ now' = now + waited + delay
                  /\ w' = [w EXCEPT ![t] =
                        [r EXCEPT !.pc = "loop",
                                  !.current_state = r.new_state,
                                  !.state_start_time =
                                      IF r.new_state # r.current_state
                                      THEN now + waited ELSE @]]
    /\ UNCHANGED <<cfg, eng, probe, calls, events, astate, starts>>

----------------------------------------------------------------------------
(* web_app: start_automation, stop_automation, run_automation_process      *)

NewThread(max_iterations) ==
    [kind |-> "thread", pc |-> "begin",
     settings |-> [max_iterations |-> max_iterations],
     result |-> "running",
     raised |-> FALSE, stopped_at |-> "", final |-> ""]

Alive(r) == r.pc # "done"

\* POST /api/automation/start: refused while running, on invalid settings
\* or on a configuration the parser rejects; otherwise a new Event, running,
\* and a new worker thread
StartAutomation ==
    /\ starts < MaxStarts
    /\ \E iterations \in 0..MaxIterations :
          IF astate.running \/ iterations <= 0 \/ ~_validate_config(cfg)
          THEN UNCHANGED vars
          ELSE /\ events' = Append(events, FALSE)
               /\ astate' = [running |-> TRUE, status |-> "Running",
                             stop_event |-> Len(events) + 1]
               /\ w' = w @@ (starts + 1 :> NewThread(iterations))
               /\ starts' = starts + 1
               /\ UNCHANGED <<cfg, now, eng, probe, calls>>

\* POST /api/automation/stop: refused unless running; sets the current
\* event and reports Stopped at once
StopAutomation ==
    /\ astate.running
    /\ events' = IF astate.stop_event # 0
                 THEN [events EXCEPT ![astate.stop_event] = TRUE] ELSE events
    /\ astate' = [astate EXCEPT !.running = FALSE, !.status = "Stopped"]
    /\ w' = [t \in DOMAIN w |->
                IF Alive(w[t]) /\ w[t].stopped_at = ""
                THEN [w[t] EXCEPT !.stopped_at = w[t].pc] ELSE w[t]]
    /\ UNCHANGED <<cfg, now, eng, probe, calls, starts>>

\* run_automation_process up to the strategy's loop: the configuration is
\* parsed, the collaborators are created, the stop flag is looked at once
WorkerBegin(t) ==
    /\ t \in DOMAIN w /\ w[t].kind = "thread" /\ w[t].pc = "begin"
    /\ \E began \in {"ok", "parser raises", "setup raises"} :
          w' = [w EXCEPT ![t] =
                IF began = "parser raises" \/ ~_validate_config(cfg)
                THEN [@ EXCEPT !.pc = "failed"]
                ELSE IF began = "setup raises" \/ IsSet(astate.stop_event)
                     THEN [@ EXCEPT !.pc = "returned", !.result = "false"]
                ELSE IF _detect_config_type(cfg) = "steps"
                     THEN NewRun(@, astate.stop_event)
                ELSE NewFsm(@, now)]
    /\ UNCHANGED <<cfg, now, eng, probe, calls, events, astate, starts>>

\* lines 395-412: the final status
FinalStatus(r) ==
    IF r.pc = "failed" THEN "Error"
    ELSE IF r.result = "true" THEN "Completed"
    ELSE IF IsSet(astate.stop_event) THEN "Stopped"
    ELSE "Failed"

WorkerFinish(t) ==
    /\ t \in DOMAIN w /\ w[t].pc \in {"returned", "failed"}
    /\ astate' = [astate EXCEPT !.status = FinalStatus(w[t]), !.running = FALSE]
    /\ w' = [w EXCEPT ![t] = [@ EXCEPT !.pc = "done", !.final = FinalStatus(w[t])]]
    /\ UNCHANGED <<cfg, now, eng, probe, calls, events, starts>>

----------------------------------------------------------------------------
(* Specifications of a run *)

\* the state start_automation leaves behind
Started == [running |-> TRUE, status |-> "Running", stop_event |-> 1]

\* one run over a step-based configuration
InitLinear ==
    /\ cfg \in LinearConfigs
    /\ now = 1
    /\ eng = NewEngine
    /\ probe = NoProbe
    /\ calls = 0
    /\ events = <<FALSE>>
    /\ w = (1 :> NewThread(1))
    /\ astate = Started
    /\ starts = 1

NextLinear ==
    \/ WorkerBegin(1)
    \/ LinLoopHead(1)
    \/ LinOptional(1)
    \/ LinAttempt(1)
    \/ LinVerify(1)
    \/ LinFallback(1)
    \/ WorkerFinish(1)
    \/ StopAutomation

SpecLinear == InitLinear /\ [][NextLinear]_vars

\* the steps of the worker thread itself
ThreadLinear ==
    \/ WorkerBegin(1)
    \/ LinLoopHead(1)
    \/ LinOptional(1)
    \/ LinAttempt(1)
    \/ LinVerify(1)
    \/ LinFallback(1)
    \/ WorkerFinish(1)

\* the same run with a thread that is scheduled and collaborators that answer
SpecLinearFair == InitLinear /\ [][NextLinear]_vars /\ WF_vars(ThreadLinear)

\* one run over a state-machine configuration
InitFsm ==
    /\ cfg \in FsmConfigs
    /\ now = 1
    /\ eng = NewEngine
    /\ probe = NoProbe
    /\ calls = 0
    /\ events = <<FALSE>>
    /\ \E n \in 1..MaxIterations : w = (1 :> NewThread(n))
    /\ astate = Started
    /\ starts = 1

NextFsm ==
    \/ WorkerBegin(1)
    \/ FsmLoopHead(1)
    \/ FsmCaptured(1)
    \/ FsmDetected(1)
    \/ FsmActed(1)
    \/ WorkerFinish(1)
    \/ StopAutomation

SpecFsm == InitFsm /\ [][NextFsm]_vars

\* the steps of the worker thread itself
ThreadFsm ==
    \/ WorkerBegin(1)
    \/ FsmLoopHead(1)
    \/ FsmCaptured(1)
    \/ FsmDetected(1)
    \/ FsmActed(1)
    \/ WorkerFinish(1)

\* the same run with a thread that is scheduled and collaborators that
\* answer: every capture, detection and dispatch returns or raises (the
\* HTTP calls carry timeouts) and every sleep ends
InitFsmFair ==
    /\ cfg \in FsmConfigs
    /\ now = 1
    /\ eng = NewEngine
    /\ probe = NoProbe
    /\ calls = 0
    /\ events = <<FALSE>>
    /\ \E n \in 1..MaxFairIterations : w = (1 :> NewThread(n))
    /\ astate = Started
    /\ starts = 1

SpecFsmFair == InitFsmFair /\ [][NextFsm]_vars /\ WF_vars(ThreadFsm)

\* the server with its start and stop requests, step-based runs
WebConfigs == {[kind |-> "steps", steps |-> (1 :> StepPressEnter),
                optional_steps |-> <<>>, fallbacks |-> EmptyDict]}

\* the configuration c with one section left out of the file
Without(c, section) == [k \in DOMAIN c \ {section} |-> c[k]]

\* files lacking a required section: a state-machine file without one of its
\* four sections, a step file without its steps or with none
RejectedFiles ==
    {Without(CfgMenu, section) : section \in required_sections}
    \cup {Without(c, "steps") : c \in WebConfigs}
    \cup {[c EXCEPT !.steps = EmptyDict] : c \in WebConfigs}

\* what the file at config_path may hold when a start is requested
StartFiles == WebConfigs \cup RejectedFiles

InitWeb ==
    /\ cfg \in StartFiles
    /\ now = 1
    /\ eng = NewEngine
    /\ probe = NoProbe
    /\ calls = 0
    /\ events = <<>>
    /\ w = IdleWorkers
    /\ astate = IdleAState
    /\ starts = 0

NextWeb ==
    \/ StartAutomation
    \/ StopAutomation
    \/ \E t \in 1..MaxStarts : WorkerBegin(t)
    \/ \E t \in 1..MaxStarts : LinLoopHead(t)
    \/ \E t \in 1..MaxStarts : LinAttempt(t)
    \/ \E t \in 1..MaxStarts : LinFallback(t)
    \/ \E t \in 1..MaxStarts : WorkerFinish(t)

SpecWeb == InitWeb /\ [][NextWeb]_vars

----------------------------------------------------------------------------
(* gui_app: AutomationGUI.start_automation, stop_automation, run_automation *)
(* astate holds the fields running and stop_event of the AutomationGUI      *)
(* object and the text of its status label.                                 *)

\* the Start button: inputs validated, load_game_info (which swallows the
\* parser's exception), the one Event cleared, running, a new thread; the
\* button is disabled while running
GuiStartAutomation ==
    /\ starts < MaxStarts
    /\ ~astate.running
    /\ \E iterations \in 0..MaxIterations :
          IF iterations <= 0
          THEN UNCHANGED vars
          ELSE /\ events' = [events EXCEPT ![astate.stop_event] = FALSE]
               /\ astate' = [astate EXCEPT !.running = TRUE, !.status = "Running"]
               /\ w' = w @@ (starts + 1 :> NewThread(iterations))
               /\ starts' = starts + 1
               /\ UNCHANGED <<cfg, now, eng, probe, calls>>

\* the Stop button
GuiStopAutomation ==
    /\ astate.running /\ DOMAIN w # {}
    /\ events' = [events EXCEPT ![astate.stop_event] = TRUE]
    /\ astate' = [astate EXCEPT !.running = FALSE, !.status = "Stopped"]
    /\ w' = [t \in DOMAIN w |->
                IF Alive(w[t]) /\ w[t].stopped_at = ""
                THEN [w[t] EXCEPT !.stopped_at = w[t].pc] ELSE w[t]]
    /\ UNCHANGED <<cfg, now, eng, probe, calls, starts>>

\* the thread has ended: the finally clause of run_automation
GuiEnded(r, status) == [r EXCEPT !.pc = "done", !.final = status]

\* run_automation up to the strategy's loop: the parser raises (label
\* Error), the set-up raises (label Error), a stop during the start-up wait
\* returns with the label untouched, or run() is entered
GuiRunBegin(t) ==
    /\ t \in DOMAIN w /\ w[t].kind = "thread" /\ w[t].pc = "begin"
    /\ \E began \in {"ok", "parser raises", "setup raises"} :
          IF began # "ok" \/ ~_validate_config(cfg)
          THEN /\ w' = [w EXCEPT ![t] = GuiEnded(@, "Error")]
               /\ astate' = [astate EXCEPT !.running = FALSE, !.status = "Error"]
          ELSE IF IsSet(astate.stop_event)
               THEN /\ w' = [w EXCEPT ![t] = GuiEnded(@, astate.status)]
                    /\ astate' = [astate EXCEPT !.running = FALSE]
          ELSE /\ w' = [w EXCEPT ![t] =
                        IF _detect_config_type(cfg) = "steps"
                        THEN NewRun(@, astate.stop_event)
                        ELSE NewFsm(@, now)]
               /\ astate' = astate
    /\ UNCHANGED <<cfg, now, eng, probe, calls, events, starts>>

\* the label after run() has returned, and the finally clause
GuiRunEnd(t) ==
    /\ t \in DOMAIN w /\ w[t].pc = "returned"
    /\ LET status == IF w[t].result = "true" THEN "Completed"
                     ELSE IF IsSet(astate.stop_event) THEN "Stopped"
                     ELSE "Failed"
       IN /\ w' = [w EXCEPT ![t] = GuiEnded(@, status)]
          /\ astate' = [astate EXCEPT !.running = FALSE, !.status = status]
    /\ UNCHANGED <<cfg, now, eng, probe, calls, events, starts>>

\* the object after __init__: one Event, not running
InitGui ==
    /\ cfg \in StartFiles
    /\ now = 1
    /\ eng = NewEngine
    /\ probe = NoProbe
    /\ calls = 0
    /\ events = <<FALSE>>
    /\ w = IdleWorkers
    /\ astate = [running |-> FALSE, status |-> "Ready", stop_event |-> 1]
    /\ starts = 0

NextGui ==
    \/ GuiStartAutomation
    \/ GuiStopAutomation
    \/ \E t \in 1..MaxStarts : GuiRunBegin(t)
    \/ \E t \in 1..MaxStarts : LinLoopHead(t)
    \/ \E t \in 1..MaxStarts : LinAttempt(t)
    \/ \E t \in 1..MaxStarts : LinFallback(t)
    \/ \E t \in 1..MaxStarts : GuiRunEnd(t)

SpecGui == InitGui /\ [][NextGui]_vars

----------------------------------------------------------------------------
(* Properties *)

LastCall == probe.op = "determine_next_action"

\* C1 as stated: every call with current_state = target_state returns no
\* action and the target state, whatever the history and the elements.
C1_TargetAlwaysTerminal ==
    (LastCall /\ probe.current_state = cfg.target_state)
        => (probe.action = EmptyDict /\ probe.new_state = cfg.target_state)

\* C1 amended: a call with current_state = target_state returns no action and
\* the target state whenever state identification of the elements yields
\* unknown or the target state; a different identified state is adopted.
C1_TargetTerminalUnlessCorrected ==
    (/\ LastCall
     /\ probe.current_state = cfg.target_state
     /\ probe.verified \in {"unknown", cfg.target_state})
        => (probe.action = EmptyDict /\ probe.new_state = cfg.target_state)

C1_Witness ==
    /\ LastCall
    /\ calls = 2
    /\ probe.before.state_history # <<>>
    /\ probe.current_state = cfg.target_state
    /\ probe.verified = cfg.target_state
    /\ probe.before.state_history[Len(probe.before.state_history)] # cfg.target_state
    /\ probe.action = EmptyDict
    /\ probe.new_state = cfg.target_state

\* an element satisfies an exclusion criterion: type any/equal, text per strategy
C2_Satisfies(crit, bbox) ==
    /\ (Get(crit, "type", "any") = "any" \/ bbox.element_type = crit.type)
    /\ TextMatch(Get(crit, "text", <<>>), bbox.element_text, Get(crit, "text_match", "exact"))

C2_ExclusionPresent ==
    /\ "exclude_elements" \in DOMAIN probe.state_def
    /\ \E i \in 1..Len(probe.state_def.exclude_elements) :
          \E j \in 1..Len(probe.bounding_boxes) :
             C2_Satisfies(probe.state_def.exclude_elements[i], probe.bounding_boxes[j])

C2_AllRequiredPresent ==
    /\ "required_elements" \in DOMAIN probe.state_def
    /\ probe.state_def.required_elements # <<>>
    /\ \A i \in 1..Len(probe.state_def.required_elements) :
          \E j \in 1..Len(probe.bounding_boxes) :
             /\ C2_Satisfies(probe.state_def.required_elements[i], probe.bounding_boxes[j])
             /\ probe.bounding_boxes[j].confidence >=
                   Get(probe.state_def.required_elements[i], "required_confidence", 60)

\* C2: a state definition one of whose exclude_elements criteria is matched
\* by some detected element does not match: _find_matching_element returns
\* no element, however many required criteria are satisfied.
C2_ExclusionTakesPrecedence ==
    (probe.op = "find" /\ probe.done /\ C2_ExclusionPresent) => probe.result = NoBox

C2_Witness ==
    /\ probe.op = "find"
    /\ probe.done
    /\ C2_ExclusionPresent
    /\ C2_AllRequiredPresent
    /\ Len(probe.state_def.required_elements) = 2
    /\ probe.result = NoBox

----------------------------------------------------------------------------
(* Properties of SimpleAutomation.run *)

\* the step keys are "1" .. "N"
\* run() has returned
Returned(r) == r.kind = "steps" /\ r.pc \in {"returned", "done"}

ContiguousSteps == DOMAIN cfg.steps = 1..Cardinality(DOMAIN cfg.steps)

\* the run gave up on a step that exists, not leaving by the stop check
GaveUp(r) ==
    /\ Returned(r) /\ r.result = "false" /\ ~r.broke
    /\ r.current_step \in DOMAIN cfg.steps

\* C3: a step is never attempted more than max_retries times; a run that
\* gives up on a step has attempted it exactly max_retries times, every
\* attempt failing; and after the max_retries-th attempt of a step has failed
\* the run has returned false.
C3_RetryBudgetExact ==
    \A t \in DOMAIN w :
        w[t].kind = "steps" =>
            /\ w[t].attempts <= max_retries
            /\ GaveUp(w[t]) => w[t].attempts = max_retries /\ w[t].retries = max_retries
            /\ w[t].attempts = max_retries /\ w[t].retries = max_retries
                   => Returned(w[t]) /\ w[t].result = "false"

\* a run gave up on a step with a find criterion, the last attempt having
\* dispatched nothing
C3_Witness ==
    \E t \in DOMAIN w :
        /\ w[t].kind = "steps" /\ GaveUp(w[t])
        /\ w[t].attempts = max_retries
        /\ cfg.steps[w[t].current_step] = StepFindOK
        /\ w[t].last = NoSends
        /\ w[t].advances = 1

StepRuns(log) == SelectSeq(log, LAMBDA e : e.src = "step")

\* C4: a run over steps 1..N that has returned with no failed attempt and no
\* stop request returned true, advanced the index N times to N+1, executed
\* the action of each step once, in step order, and executed no fallback.
C4_AllFirstAttempt ==
    \A t \in DOMAIN w :
        LET r == w[t]
            N == Cardinality(DOMAIN cfg.steps)
        IN (Returned(r) /\ ~r.failed
              /\ ContiguousSteps /\ ~IsSet(r.stop_event)) =>
              /\ r.result = "true"
              /\ r.advances = N /\ r.current_step = N + 1
              /\ Len(StepRuns(r.log)) = N
              /\ \A i \in 1..N :
                    /\ StepRuns(r.log)[i].step = i
                    /\ \E box \in Boxes \cup {NoBox} :
                          StepRuns(r.log)[i].sent =
                              _execute_modular_action(cfg.steps[i].action, box, MaxSends).sent
              /\ \A i \in 1..Len(r.log) : r.log[i].src # "fallback"

\* a two-step run, one step a two-action sequence with verification, returned
\* true without a failure or a stop request
C4_Witness ==
    \E t \in DOMAIN w :
        /\ Returned(w[t]) /\ w[t].result = "true"
        /\ ~w[t].failed /\ ~IsSet(w[t].stop_event)
        /\ w[t].advances = 2
        /\ cfg.steps[2] = StepPlayVerified
        /\ Len(w[t].log) >= 2

----------------------------------------------------------------------------
(* Properties of the worker threads *)

Workers == {t \in DOMAIN w : w[t].kind \in {"steps", "state_machine"}}

\* positions inside a strategy's loop, a blocking call or a sleep in progress
LoopPositions == {"loop", "optional", "capture", "verify", "fallback", "detect", "act"}

\* C5: a start request starts a worker thread only when no worker thread
\* started earlier is still alive.
C5_StartOnlyWhenIdle ==
    [][starts' = starts + 1 => \A t \in DOMAIN w : ~Alive(w[t])]_vars

\* C6: a run during whose loop the stop was requested, and in which no
\* collaborator raised, ends with the final status Stopped.
C6_StoppedRunEndsStopped ==
    \A t \in Workers :
        (w[t].pc = "done" /\ w[t].stopped_at \in LoopPositions /\ ~w[t].raised)
            => w[t].final = "Stopped"

\* C7: no blocking call returns with the stop flag set and is followed by
\* another blocking call begun without a look at the flag.
C7_NoCallAfterStop ==
    \A t \in Workers : ~w[t].late

\* C8: a run in which a capture, a detection or a dispatch raised, and which
\* nobody asked to stop, ends with the final status Error.
C8_RaisedRunEndsError ==
    \A t \in Workers :
        (w[t].pc = "done" /\ w[t].raised /\ w[t].stopped_at = "")
            => w[t].final = "Error"

\* C9: an iteration of the control loop that starts with more time spent in
\* the current state than the state's declared timeout (60 seconds when it
\* declares none) dispatches get_fallback_action(current_state) and leaves
\* current_state unchanged; when the dispatch returns, the state-entry timer
\* is the current time and the loop goes on; the run ends in that iteration
\* only when the dispatch raises.
C9_TimeoutIssuesFallback ==
    [][\A t \in DOMAIN w :
          LET r == w[t]
              def == get_state_definition(cfg, r.current_state)
              limit == IF "timeout" \in DOMAIN def THEN def.timeout ELSE max_time_in_state
          IN (/\ r.kind = "state_machine" /\ r.pc = "loop"
              /\ w'[t].iteration = r.iteration + 1
              /\ now - r.state_start_time > limit)
             => /\ w'[t].last = [what |-> "timeout",
                                 action |-> get_fallback_action(cfg, r.current_state)]
                /\ w'[t].current_state = r.current_state
                /\ \/ w'[t].pc = "loop" /\ w'[t].state_start_time = now'
                   \/ w'[t].pc = "returned" /\ w'[t].raised]_vars

\* the dialog state, timeout 5, has just timed out: its own fallback went
\* out, the timer is the current time, the loop has iterations left
C9_Witness ==
    \E t \in Workers :
        /\ w[t].kind = "state_machine" /\ w[t].pc = "loop"
        /\ w[t].last = [what |-> "timeout", action |-> [type |-> "key", key |-> "enter"]]
        /\ w[t].current_state = "dialog"
        /\ w[t].state_start_time = now
        /\ LoopCondition(w[t])

\* C10: every fallback the control loop issues, on a timeout or because the
\* engine returned it for want of a transition, leaves the loop running with
\* the state-entry timer not earlier than the moment of the issue.
C10_FallbackResetsTimer ==
    [][\A t \in DOMAIN w :
          LET r == w[t]
          IN /\ (/\ r.kind = "state_machine" /\ r.pc = "loop"
                 /\ w'[t].iteration = r.iteration + 1
                 /\ w'[t].last.what = "timeout" /\ w'[t].pc = "loop")
                => w'[t].state_start_time >= now
             /\ (/\ r.kind = "state_machine" /\ r.pc = "act"
                 /\ r.last.what = "fallback" /\ r.executes
                 /\ w'[t].pc = "loop")
                => w'[t].state_start_time >= now]_vars

----------------------------------------------------------------------------
(* Properties of the engine's decisions *)

\* no transition is declared from the state the call was made with
NoTransitionFrom(current_state) ==
    \A i \in 1..Len(cfg.transitions) : cfg.transitions[i].from # current_state

\* C11 as stated: a call made in a state other than the target from which no
\* transition is declared, whose elements identify no state, returns a wait
\* action and "initial" as the new state.
C11_StuckWaitsToInitial ==
    (/\ LastCall
     /\ probe.current_state # cfg.target_state
     /\ NoTransitionFrom(probe.current_state)
     /\ probe.verified = "unknown")
        => (/\ Get(probe.action, "type", "") = "wait"
            /\ probe.new_state = "initial")

\* C11 amended: the same for every such state other than "initial"; a call
\* made in "initial" returns get_fallback_action("initial") and stays there.
C11_StuckAwayFromInitialWaits ==
    (/\ LastCall
     /\ probe.current_state # cfg.target_state
     /\ NoTransitionFrom(probe.current_state)
     /\ probe.verified = "unknown")
        => IF probe.current_state # "initial"
           THEN /\ Get(probe.action, "type", "") = "wait"
                /\ probe.new_state = "initial"
           ELSE /\ probe.action = get_fallback_action(cfg, "initial")
                /\ probe.new_state = "initial"

\* the dead-end dialog state, nothing recognised: wait and back to "initial"
C11_Witness ==
    /\ LastCall
    /\ probe.current_state = "dialog"
    /\ NoTransitionFrom("dialog")
    /\ probe.verified = "unknown"
    /\ probe.action = WaitAction(3)
    /\ probe.new_state = "initial"

\* the state the call acted from: the verified state when it is a known state
\* different from the one passed in
ActedFrom ==
    IF probe.verified \notin {"unknown", probe.current_state}
    THEN probe.verified ELSE probe.current_state

\* the transition chosen by the call, "" when none leaves the state
Chosen == _select_next_state(cfg, probe.after, ActedFrom)

\* indices of the detected elements matching the chosen transition's target
\* criterion by type and text
TargetMatches ==
    {j \in 1..Len(probe.bounding_boxes) :
        C2_Satisfies(Get(TransitionDef(cfg, ActedFrom, Chosen), "target", EmptyDict),
                     probe.bounding_boxes[j])}

ChoseFoundClick ==
    /\ LastCall
    /\ ActedFrom # cfg.target_state
    /\ Chosen # ""
    /\ Get(TransitionDef(cfg, ActedFrom, Chosen), "action", "") = "click"
    /\ "hardcoded_coords" \notin DOMAIN TransitionDef(cfg, ActedFrom, Chosen)
    /\ TargetMatches # {}

\* C12: a call that chooses a click transition without hardcoded coordinates
\* whose target criterion is matched (type and text) by a detected element
\* returns a click at (x + width div 2, y + height div 2) of the first such
\* element in detection order, and the transition's to-state as new state.
C12_ClickAtCentreOfFirstMatch ==
    ChoseFoundClick =>
        LET j == CHOOSE j \in TargetMatches : \A k \in TargetMatches : j <= k
            b == probe.bounding_boxes[j]
        IN /\ probe.action = [type |-> "click",
                              x |-> b.x + (b.width \div 2),
                              y |-> b.y + (b.height \div 2)]
           /\ probe.new_state = Chosen

\* the Play button 100,50,80,20 seen in state menu of initial -> menu ->
\* target: a click at (140, 60), new state target
C12_Witness ==
    /\ ChoseFoundClick
    /\ cfg = CfgMenu
    /\ probe.current_state = "menu"
    /\ probe.bounding_boxes = <<BoxPlay>>
    /\ probe.action = [type |-> "click", x |-> 140, y |-> 60]
    /\ probe.new_state = "target"

\* the attributes of the engine a query must leave alone
QueryFrame(e) ==
    <<e.state_history, e.visited_states, e.state_context, e.transitions_taken,
      e.state_start_times>>

----------------------------------------------------------------------------
(* Properties of the control loop's iteration budget *)

FsmPositions == {"loop", "capture", "detect", "act"}

FsmThreads == {t \in DOMAIN w : w[t].kind = "state_machine"}

\* one of the three conditions that end the while loop holds
ExitCondition(r) ==
    \/ r.current_state = cfg.target_state
    \/ r.iteration >= r.settings.max_iterations
    \/ IsSet(astate.stop_event)

\* never more than max_iterations iterations
WithinBudget ==
    \A t \in FsmThreads : w[t].iteration <= w[t].settings.max_iterations

\* a pass of the loop test that stays in the loop, into the timeout branch or
\* on to the capture, counts as one iteration
EveryPassCounts ==
    \A t \in FsmThreads :
        (/\ w[t].pc = "loop" /\ w'[t].pc \in FsmPositions
         /\ [w'[t] EXCEPT !.stopped_at = w[t].stopped_at] # w[t])
            => w'[t].iteration = w[t].iteration + 1

\* every worker thread has left its loop
LoopsLeft ==
    \A t \in DOMAIN w : w[t].pc \in {"returned", "failed", "done"}

----------------------------------------------------------------------------
(* Termination of SimpleAutomation.run *)

\* C14: every run of SimpleAutomation.run eventually returns, whatever the
\* detector and the other collaborators answer, an optional interrupt that
\* matches on every observation included, with or without a stop request.
C14_RunEventuallyReturns ==
    <>(\A t \in DOMAIN w : w[t].pc \in {"returned", "failed", "done"})

----------------------------------------------------------------------------
(* Properties of the front ends *)

\* C15: while the file at config_path lacks a required section (steps of a
\* step file; states, transitions, initial_state or target_state of a
\* state-machine file) no run is in the running state and no worker thread
\* has been started, so that no launch, capture, detection or dispatch call
\* is made.
C15_RejectedBeforeStart ==
    ~_validate_config(cfg) =>
        /\ ~astate.running
        /\ astate.status # "Running"
        /\ DOMAIN w = {}

----------------------------------------------------------------------------
(* CoordinateScaler.  Scale factors are kept as exact fractions n/d in     *)
(* lowest terms; the sums and means of the code are sums and means of      *)
(* these fractions.  Relative positions are in percent.  Coordinates are   *)
(* not negative, so int() is the integer quotient.                         *)

RECURSIVE GCD(_, _)
GCD(a, b) == IF b = 0 THEN a ELSE GCD(b, a % b)

Frac(n, d) ==
    IF n = 0 THEN [n |-> 0, d |-> 1]
    ELSE [n |-> n \div GCD(n, d), d |-> d \div GCD(n, d)]

FracAdd(p, q) == Frac(p.n * q.d + q.n * p.d, p.d * q.d)

FracOver(p, k) == Frac(p.n, p.d * k)

Abs(v) == IF v < 0 THEN 0 - v ELSE v

UpperChar(c) ==
    CASE c = "p" -> "P"
      [] c = "l" -> "L"
      [] c = "a" -> "A"
      [] c = "y" -> "Y"
      [] c = "o" -> "O"
      [] c = "k" -> "K"
      [] c = "f" -> "F"
      [] c = "s" -> "S"
      [] OTHER -> c

Upper(s) == [i \in 1..Len(s) |-> UpperChar(s[i])]

reference_elements ==
    (<<"P", "L", "A", "Y">> :> [x |-> 50, y |-> 5])
    @@ (<<"I", "N", "V", "E", "N", "T", "O", "R", "Y">> :> [x |-> 40, y |-> 5])
    @@ (<<"S", "T", "O", "R", "E">> :> [x |-> 60, y |-> 5])
    @@ (<<"N", "E", "W", "S">> :> [x |-> 70, y |-> 5])
    @@ (<<"L", "O", "A", "D", "O", "U", "T">> :> [x |-> 45, y |-> 5])

\* the scaler after __init__
NewScaler ==
    [screen_width |-> 1920,
     screen_height |-> 1080,
     gemma_assumed_width |-> 800,
     gemma_assumed_height |-> 600,
     scale_x |-> Frac(1, 1),
     scale_y |-> Frac(1, 1),
     calibrated |-> FALSE,
     calibration_count |-> 0,
     max_calibration_samples |-> 3,
     sum_scale_x |-> Frac(0, 1),
     sum_scale_y |-> Frac(0, 1)]

\* an image file: its size, or a file that cannot be opened
Unreadable == [width |-> 0, height |-> 0, readable |-> FALSE]

ImageOf(width, height) == [width |-> width, height |-> height, readable |-> TRUE]

\* get_image_dimensions: the size of the image, the stored screen size when
\* opening it raises
get_image_dimensions(self, image) ==
    IF image.readable THEN [width |-> image.width, height |-> image.height]
    ELSE [width |-> self.screen_width, height |-> self.screen_height]

\* line 80
IsReference(bbox) ==
    /\ bbox.element_text # <<>>
    /\ Upper(bbox.element_text) \in DOMAIN reference_elements

\* lines 82-86
ExpectedAt(bbox, actual) ==
    [x |-> (reference_elements[Upper(bbox.element_text)].x * actual.width) \div 100,
     y |-> (reference_elements[Upper(bbox.element_text)].y * actual.height) \div 100]

\* lines 89-90
DetectedAt(bbox) ==
    [x |-> bbox.x + (bbox.width \div 2), y |-> bbox.y + (bbox.height \div 2)]

\* line 94
InExpectedArea(bbox, actual) ==
    /\ Abs(DetectedAt(bbox).x - ExpectedAt(bbox, actual).x) * 3 < actual.width
    /\ Abs(DetectedAt(bbox).y - ExpectedAt(bbox, actual).y) * 3 < actual.height

Qualifies(bbox, actual) == IsReference(bbox) /\ InExpectedArea(bbox, actual)

\* lines 96-99: what one element adds to suggested_scale_x (or _y)
SuggestedScale(expected, detected) ==
    IF detected > 0 THEN Frac(expected, detected) ELSE Frac(0, 1)

\* lines 79-102 over the first n boxes: [x, y: the sums; total: total_elements]
RECURSIVE Suggested(_, _, _)
Suggested(bounding_boxes, actual, n) ==
    IF n = 0 THEN [x |-> Frac(0, 1), y |-> Frac(0, 1), total |-> 0]
    ELSE IF ~Qualifies(bounding_boxes[n], actual)
         THEN Suggested(bounding_boxes, actual, n - 1)
    ELSE [x |-> FracAdd(Suggested(bounding_boxes, actual, n - 1).x,
                        SuggestedScale(ExpectedAt(bounding_boxes[n], actual).x,
                                       DetectedAt(bounding_boxes[n]).x)),
          y |-> FracAdd(Suggested(bounding_boxes, actual, n - 1).y,
                        SuggestedScale(ExpectedAt(bounding_boxes[n], actual).y,
                                       DetectedAt(bounding_boxes[n]).y)),
          total |-> Suggested(bounding_boxes, actual, n - 1).total + 1]

\* a running average that never declares the calibration complete
Averaged_NeverComplete(self, sug) ==
    [self EXCEPT
        !.sum_scale_x = FracAdd(@, FracOver(sug.x, sug.total)),
        !.sum_scale_y = FracAdd(@, FracOver(sug.y, sug.total)),
        !.calibration_count = @ + 1,
        !.scale_x = FracOver(FracAdd(self.sum_scale_x, FracOver(sug.x, sug.total)),
                             self.calibration_count + 1),
        !.scale_y = FracOver(FracAdd(self.sum_scale_y, FracOver(sug.y, sug.total)),
                             self.calibration_count + 1)]

\* lines 106-126: the running average takes the observation in
Averaged(self, sug) ==
    [self EXCEPT
        !.sum_scale_x = FracAdd(@, FracOver(sug.x, sug.total)),
        !.sum_scale_y = FracAdd(@, FracOver(sug.y, sug.total)),
        !.calibration_count = @ + 1,
        !.scale_x = FracOver(FracAdd(self.sum_scale_x, FracOver(sug.x, sug.total)),
                             self.calibration_count + 1),
        !.scale_y = FracOver(FracAdd(self.sum_scale_y, FracOver(sug.y, sug.total)),
                             self.calibration_count + 1),
        !.calibrated = (self.calibrated
                        \/ self.calibration_count + 1 >= self.max_calibration_samples)]

\* lines 127-131
Resized(self, actual) ==
    [self EXCEPT !.screen_width = actual.width, !.screen_height = actual.height]

Calibrated(self, actual, sug) ==
    IF sug.total > 0 THEN Averaged(self, sug) ELSE Resized(self, actual)

calibrate_from_screenshot(self, image, bounding_boxes) ==
    Calibrated(self, get_image_dimensions(self, image),
               Suggested(bounding_boxes, get_image_dimensions(self, image),
                         Len(bounding_boxes)))

\* int(v * scale)
Scaled(v, scale) == (v * scale.n) \div scale.d

scale_bounding_boxes(self, bounding_boxes) ==
    [j \in 1..Len(bounding_boxes) |->
        BoundingBox(Scaled(bounding_boxes[j].x, self.scale_x),
                    Scaled(bounding_boxes[j].y, self.scale_y),
                    Scaled(bounding_boxes[j].width, self.scale_x),
                    Scaled(bounding_boxes[j].height, self.scale_y),
                    bounding_boxes[j].confidence,
                    bounding_boxes[j].element_type,
                    bounding_boxes[j].element_text)]

----------------------------------------------------------------------------
(* The scaler driven call by call; eng holds the CoordinateScaler *)

TxtStore == <<"S", "T", "O", "R", "E">>

Images == {ImageOf(1920, 1080), ImageOf(800, 600), ImageOf(64, 16), Unreadable}

\* a one-pixel element, whose centre is its corner
ElementAt(element_text, x, y) == BoundingBox(x, y, 1, 1, 90, "button", element_text)

\* where the reference element of that text is expected in the image
Where(element_text, actual) == ExpectedAt(ElementAt(element_text, 0, 0), actual)

\* element lists a detector reports for an image of that size: references
\* at their expected places, at half the expected coordinates, on the top
\* edge, in a far corner, and elements that are no references
Detections(actual) ==
    {<<>>,
     <<BoxOK>>,
     <<ElementAt(TxtPlay, Where(TxtPlay, actual).x, Where(TxtPlay, actual).y)>>,
     <<ElementAt(TxtPlay, Where(TxtPlay, actual).x, Where(TxtPlay, actual).y),
       ElementAt(TxtStore, Where(TxtStore, actual).x, Where(TxtStore, actual).y)>>,
     <<BoxIcon,
       ElementAt(TxtStore, Where(TxtStore, actual).x, Where(TxtStore, actual).y)>>,
     <<ElementAt(TxtPlay, Where(TxtPlay, actual).x \div 2, Where(TxtPlay, actual).y \div 2)>>,
     <<ElementAt(TxtPlay, Where(TxtPlay, actual).x, 0)>>,
     <<ElementAt(TxtPlay, 0, 0)>>}

\* every reference element of the list is detected exactly where expected
AllExact(actual, bounding_boxes) ==
    \A j \in 1..Len(bounding_boxes) :
        IsReference(bounding_boxes[j]) =>
            DetectedAt(bounding_boxes[j]) = ExpectedAt(bounding_boxes[j], actual)

InitScaler ==
    /\ cfg = EmptyDict
    /\ now = 1
    /\ eng = NewScaler
    /\ probe = [op |-> "none", all_exact |-> TRUE]
    /\ calls = 0
    /\ w = IdleWorkers
    /\ events = <<>>
    /\ astate = IdleAState
    /\ starts = 0

\* one call of calibrate_from_screenshot; all_exact remembers whether every
\* observation so far had its references exactly in place
CalibrateFromScreenshot ==
    /\ calls < MaxCalibrations
    /\ \E image \in Images :
          \E bounding_boxes \in Detections(get_image_dimensions(eng, image)) :
             /\ eng' = calibrate_from_screenshot(eng, image, bounding_boxes)
             /\ probe' = [op |-> "calibrate",
                          image |-> image,
                          bounding_boxes |-> bounding_boxes,
                          before |-> eng,
                          all_exact |-> (probe.all_exact
                                         /\ AllExact(get_image_dimensions(eng, image),
                                                     bounding_boxes))]
    /\ calls' = calls + 1
    /\ UNCHANGED <<cfg, now, w, events, astate, starts>>

\* one call of scale_bounding_boxes
ScaleBoundingBoxes ==
    /\ \E bounding_boxes \in Screens :
          probe' = [op |-> "scale",
                    bounding_boxes |-> bounding_boxes,
                    result |-> scale_bounding_boxes(eng, bounding_boxes),
                    before |-> eng,
                    all_exact |-> probe.all_exact]
    /\ UNCHANGED <<cfg, now, eng, calls, w, events, astate, starts>>

NextScaler ==
    \/ CalibrateFromScreenshot
    \/ ScaleBoundingBoxes

SpecScaler == InitScaler /\ [][NextScaler]_vars

----------------------------------------------------------------------------
\* a fallback action is declared under the name: the section has the entry
\* and the entry is not empty
Declared(name) == name \in DOMAIN cfg.fallbacks /\ cfg.fallbacks[name] # EmptyDict

\* C17: get_fallback_action(state) returns the fallback declared for the
\* state when one is declared, otherwise the general fallback when one is
\* declared, otherwise the single key press escape; the action returned is
\* never empty and the call leaves the engine as it was.
C17_FallbackOrder ==
    probe.op = "get_fallback_action" =>
        /\ Declared(probe.current_state) =>
               probe.action = cfg.fallbacks[probe.current_state]
        /\ (~Declared(probe.current_state) /\ Declared("general")) =>
               probe.action = cfg.fallbacks["general"]
        /\ (~Declared(probe.current_state) /\ ~Declared("general")) =>
               probe.action = [type |-> "key", key |-> "escape"]
        /\ probe.action # EmptyDict
        /\ probe.after = probe.before
        /\ eng = probe.before

\* the fallback of a state that declares its own, beside a general one,
\* asked of an engine that has already taken a transition
C17_Witness ==
    /\ probe.op = "get_fallback_action"
    /\ Declared(probe.current_state)
    /\ Declared("general")
    /\ probe.current_state # "general"
    /\ probe.action # cfg.fallbacks["general"]
    /\ eng.transitions_taken # {}

----------------------------------------------------------------------------
\* the criterion has type any and empty text, written out or by default
AsksNothing(criterion) ==
    /\ Get(criterion, "type", "any") = "any"
    /\ Get(criterion, "text", <<>>) = <<>>

\* a finished query of the engine's matcher for a state whose only required
\* criterion asks nothing and none of whose exclusions matches
AnyStateQuery ==
    /\ probe.op = "find"
    /\ probe.done
    /\ Len(probe.state_def.required_elements) = 1
    /\ AsksNothing(probe.state_def.required_elements[1])
    /\ ~AnyExcluded(probe.state_def, probe.bounding_boxes)

\* a finished query of the step matcher for a criterion that asks nothing
AnyStepQuery ==
    /\ probe.op = "simple_find"
    /\ probe.done
    /\ AsksNothing(probe.target_def)

\* positions of the elements confident enough for the state's criterion
ConfidentEnough ==
    {j \in 1..Len(probe.bounding_boxes) :
        probe.bounding_boxes[j].confidence >=
            Get(probe.state_def.required_elements[1], "required_confidence", 60)}

\* C18 (as stated): for a criterion with type any and empty text every
\* detected element satisfies the criterion in both matchers, so a state or
\* step whose only criterion is this one matches whenever the element list
\* is non-empty and no exclusion matches.
C18_AnyMatchesEveryElement ==
    /\ AnyStateQuery =>
          (probe.bounding_boxes # <<>> => probe.result = probe.bounding_boxes[1])
    /\ AnyStepQuery =>
          (probe.bounding_boxes # <<>> => probe.result = probe.bounding_boxes[1])

\* C18 (amended): for a criterion with type any and empty text, the step
\* matcher is satisfied by every detected element and returns the first of
\* the list; the engine's matcher is satisfied by exactly the elements whose
\* confidence reaches the criterion's threshold (60 percent by default), so
\* a state whose only required criterion is this one matches, with the first
\* such element, whenever there is one and no exclusion matches, and does
\* not match otherwise.
C18_AnyMatchesConfidentElement ==
    /\ AnyStateQuery =>
          IF ConfidentEnough = {} THEN probe.result = NoBox
          ELSE \E j \in ConfidentEnough :
                  /\ \A k \in ConfidentEnough : j <= k
                  /\ probe.result = probe.bounding_boxes[j]
    /\ AnyStepQuery =>
          IF probe.bounding_boxes = <<>> THEN probe.result = NoBox
          ELSE probe.result = probe.bounding_boxes[1]

\* a state asking for anything, given a faint element before a clear one:
\* the clear one is its match
C18_Witness ==
    /\ AnyStateQuery
    /\ Len(probe.bounding_boxes) = 2
    /\ probe.bounding_boxes[1].confidence < 60
    /\ probe.result = probe.bounding_boxes[2]

----------------------------------------------------------------------------
\* C19: when in every observation so far each reference element was detected
\* exactly at its expected position, scale_x = scale_y = 1 after any number
\* of calibrate_from_screenshot calls, and scale_bounding_boxes returns
\* every box with its coordinates and size unchanged.
C19_NoOpCalibration ==
    probe.all_exact =>
        /\ eng.scale_x = Frac(1, 1)
        /\ eng.scale_y = Frac(1, 1)
        /\ probe.op = "scale" => probe.result = probe.bounding_boxes

----------------------------------------------------------------------------
\* C20: the FSM control loop reports a run as completed only if in some
\* iteration of the run the state identifier recognised the target state
\* from the detected elements; the choice of a transition into the target
\* state is not completion.
C20_CompletedOnlyIfRecognised ==
    \A t \in FsmThreads :
        (w[t].pc \in {"returned", "done"} /\ w[t].result = "true") => w[t].recognised

----------------------------------------------------------------------------
\* C21: determine_next_action returns a new state different from the state
\* it acted from only together with a non-empty action, and adds a transition
\* to transitions_taken only when it returns that transition's action: a
\* chosen transition whose action cannot be resolved neither advances the
\* state nor is recorded as taken.
C21_UnresolvedTransitionStays ==
    LastCall =>
        /\ probe.new_state # ActedFrom => probe.action # EmptyDict
        /\ probe.after.transitions_taken # probe.before.transitions_taken
              => probe.action # EmptyDict

----------------------------------------------------------------------------
DeclaredStates == {cfg.states[i].name : i \in 1..Len(cfg.states)}

\* the call identified a declared state other than the one it was given
IdentifiedAnother ==
    /\ LastCall
    /\ probe.verified \in DeclaredStates
    /\ probe.verified # probe.current_state

\* state_history once the call has entered the state it was given
HistoryOnEntry ==
    IF \/ probe.before.state_history = <<>>
       \/ probe.before.state_history[Len(probe.before.state_history)] # probe.current_state
    THEN Append(probe.before.state_history, probe.current_state)
    ELSE probe.before.state_history

\* C22: when the state identified from the detected elements is a declared
\* state different from the current_state passed in, determine_next_action
\* adopts it: the target check, the transition selection and the returned
\* action are computed from the identified state, which is appended to
\* state_history and added to visited_states.
C22_AdoptsIdentifiedState ==
    IdentifiedAnother =>
        /\ probe.after.state_history = Append(HistoryOnEntry, probe.verified)
        /\ probe.verified \in probe.after.visited_states
        /\ IF probe.verified = cfg.target_state
           THEN probe.action = EmptyDict /\ probe.new_state = probe.verified
           ELSE IF _select_next_state(cfg, probe.after, probe.verified) = ""
                THEN probe.new_state = probe.verified
           ELSE /\ probe.new_state = _select_next_state(cfg, probe.after, probe.verified)
                /\ probe.action =
                      _get_action_for_transition(cfg, probe.before, probe.verified,
                                                 probe.new_state,
                                                 probe.bounding_boxes).action

\* given "initial" while the screen shows the menu of initial -> menu ->
\* target: the call clicks the Play button and goes on to the target
C22_Witness ==
    /\ IdentifiedAnother
    /\ cfg = CfgMenu
    /\ probe.current_state = "initial"
    /\ probe.verified = "menu"
    /\ probe.action = [type |-> "click", x |-> 140, y |-> 60]
    /\ probe.new_state = "target"
    /\ probe.after.state_history = <<"initial", "menu">>

----------------------------------------------------------------------------
\* C23: when no transition is declared from the current state, the current
\* state is not the target and state identification returned a known state,
\* determine_next_action returns the configured fallback action, as given by
\* get_fallback_action, and the unchanged current state.
C23_KnownDeadEndIssuesFallback ==
    (/\ LastCall
     /\ probe.verified # "unknown"
     /\ ActedFrom # cfg.target_state
     /\ NoTransitionFrom(ActedFrom))
        => /\ probe.action = get_fallback_action(cfg, ActedFrom)
           /\ probe.new_state = ActedFrom

----------------------------------------------------------------------------
\* positions, in the transitions section, of the transitions leaving the
\* state the call acted from, and of those among them into unvisited states
Leaving == {i \in 1..Len(cfg.transitions) : cfg.transitions[i].from = ActedFrom}

LeavingUnvisited ==
    {i \in Leaving : cfg.transitions[i].to \notin probe.after.visited_states}

\* the call went through the selection of a next state
Selected ==
    /\ LastCall
    /\ ActedFrom # cfg.target_state
    /\ Leaving # {}

\* C24: when several transitions leave the current state the next state is
\* the to-state of the first of them, in declaration order, whose to-state
\* is not in visited_states; when every to-state has been visited, or when
\* only one transition leaves the state, it is the first declared
\* transition's to-state.
C24_FirstUnvisitedElseFirst ==
    Selected =>
        \E i \in (IF Cardinality(Leaving) > 1 /\ LeavingUnvisited # {}
                  THEN LeavingUnvisited ELSE Leaving) :
            /\ \A k \in (IF Cardinality(Leaving) > 1 /\ LeavingUnvisited # {}
                          THEN LeavingUnvisited ELSE Leaving) : i <= k
            /\ probe.new_state = cfg.transitions[i].to

\* two transitions leave the state and the first declared leads back to a
\* visited state: the second is taken
C24_Witness ==
    /\ Selected
    /\ Cardinality(Leaving) > 1
    /\ \E i \in Leaving : \E k \in Leaving :
          /\ i < k
          /\ cfg.transitions[i].to \in probe.after.visited_states
          /\ probe.new_state = cfg.transitions[k].to
          /\ probe.new_state # cfg.transitions[i].to

----------------------------------------------------------------------------
\* the definition of the transition the call chose
ChosenDef == TransitionDef(cfg, ActedFrom, Chosen)

\* the call chose a click transition
ChoseClick ==
    /\ LastCall
    /\ ActedFrom # cfg.target_state
    /\ Chosen # ""
    /\ Get(ChosenDef, "action", "") = "click"

\* the click at the centre of the first detected element matching the
\* chosen transition's target criterion
CentreOfFirstMatch ==
    LET j == CHOOSE j \in TargetMatches : \A k \in TargetMatches : j <= k
    IN [type |-> "click",
        x |-> probe.bounding_boxes[j].x + (probe.bounding_boxes[j].width \div 2),
        y |-> probe.bounding_boxes[j].y + (probe.bounding_boxes[j].height \div 2)]

\* C25: for a chosen click transition the action is the click at the
\* hardcoded coordinates if they are declared; otherwise at the centre of a
\* detected element matching the target criterion; otherwise at the declared
\* fallback coordinates; otherwise there is no action.
C25_ClickSourcePriority ==
    ChoseClick =>
        IF "hardcoded_coords" \in DOMAIN ChosenDef
        THEN probe.action = [type |-> "click",
                             x |-> ChosenDef.hardcoded_coords.x,
                             y |-> ChosenDef.hardcoded_coords.y]
        ELSE IF TargetMatches # {}
             THEN probe.action = CentreOfFirstMatch
        ELSE IF Get(ChosenDef, "fallback_coords", EmptyDict) # EmptyDict
             THEN probe.action = [type |-> "click",
                                  x |-> ChosenDef.fallback_coords.x,
                                  y |-> ChosenDef.fallback_coords.y]
        ELSE probe.action = EmptyDict

\* hardcoded coordinates used although an element matching the target is
\* on the screen
C25_Witness ==
    /\ ChoseClick
    /\ "hardcoded_coords" \in DOMAIN ChosenDef
    /\ TargetMatches # {}
    /\ probe.action # CentreOfFirstMatch
    /\ probe.action = [type |-> "click", x |-> 3, y |-> 4]

----------------------------------------------------------------------------
\* the last operation was a query
Queried == probe.op = "identify"

\* the names of the declared states whose definition matches the queried
\* element list
QueryMatches ==
    {cfg.states[i].name : i \in {k \in 1..Len(cfg.states) :
        FindMatchingElement(cfg.states[k].def, probe.bounding_boxes) # NoBox}}

\* the query was answered from the context (lines 184-189): a benchmark is
\* in progress, the last recorded state is benchmark_running and an element
\* text holds a result keyword
AnsweredFromContext ==
    /\ Get(probe.before.state_context, "in_benchmark", FALSE)
    /\ probe.before.state_history # <<>>
    /\ probe.before.state_history[Len(probe.before.state_history)] = "benchmark_running"
    /\ _is_likely_benchmark_results(probe.bounding_boxes)

\* C26 as stated: the result of _identify_current_state is "unknown"
\* exactly when no declared definition matches, and otherwise a declared
\* state whose definition matches.
C26_OnlyMatchingStates ==
    Queried =>
        /\ probe.result = "unknown" <=> QueryMatches = {}
        /\ probe.result # "unknown" => probe.result \in QueryMatches

\* C26: a query answered from the context returns benchmark_complete
\* whatever matches; any other query returns "unknown" exactly when no
\* declared definition matches, and otherwise a declared state whose
\* definition matches.
C26_MatchingStateUnlessContext ==
    Queried =>
        IF AnsweredFromContext
        THEN probe.result = "benchmark_complete"
        ELSE /\ probe.result = "unknown" <=> QueryMatches = {}
             /\ probe.result # "unknown" => probe.result \in QueryMatches

\* a score screen queried while the benchmark runs: benchmark_complete is
\* returned though only benchmark_running matches
C26_Witness ==
    /\ Queried
    /\ AnsweredFromContext
    /\ probe.bounding_boxes = <<BoxScore>>
    /\ probe.result = "benchmark_complete"
    /\ "benchmark_complete" \notin QueryMatches

----------------------------------------------------------------------------
\* the positions in cfg.states of the states matching the queried element
\* list
MatchPositions ==
    {i \in 1..Len(cfg.states) :
        FindMatchingElement(cfg.states[i].def, probe.bounding_boxes) # NoBox}

\* the query found more than one matching state
Ambiguous == Queried /\ Cardinality(MatchPositions) > 1

\* the matching states into which a transition from the last recorded
\* state is declared
FollowPositions ==
    IF probe.before.state_history = <<>>
    THEN {}
    ELSE {i \in MatchPositions :
             HasTransition(cfg,
                           probe.before.state_history[Len(probe.before.state_history)],
                           cfg.states[i].name)}

\* both states of the benchmark pair match
PairMatches ==
    {"benchmark_running", "benchmark_complete"} \subseteq QueryMatches

\* the state the three rules of lines 206-229 give
ResolvedByOrder ==
    IF FollowPositions # {}
    THEN cfg.states[CHOOSE i \in FollowPositions :
                        \A k \in FollowPositions : i <= k].name
    ELSE IF PairMatches
         THEN IF Get(probe.before.state_context, "benchmark_run", FALSE)
              THEN "benchmark_complete"
              ELSE "benchmark_running"
    ELSE cfg.states[CHOOSE i \in MatchPositions :
                        \A k \in MatchPositions : i <= k].name

\* C27 as stated: when more than one declared state matches the result is
\* the first matching state reachable by a declared transition from the
\* last state of the history, else the state of the benchmark pair the
\* benchmark_run flag selects, else the first matching state.
C27_ResolutionOrder ==
    Ambiguous => probe.result = ResolvedByOrder

\* C27: when more than one declared state matches and the query is not
\* answered from the context, the result is the first matching state
\* reachable by a declared transition from the last state of the history,
\* else the state of the benchmark pair the benchmark_run flag selects, else
\* the first matching state; a query answered from the context returns
\* benchmark_complete before any of the three rules is tried.
C27_ResolutionOrderUnlessContext ==
    Ambiguous =>
        IF AnsweredFromContext
        THEN probe.result = "benchmark_complete"
        ELSE probe.result = ResolvedByOrder

\* two states match, no transition from the last recorded state leads to
\* either, they are not the benchmark pair: the first declared is returned
C27_Witness ==
    /\ Ambiguous
    /\ ~AnsweredFromContext
    /\ probe.before.state_history # <<>>
    /\ FollowPositions = {}
    /\ ~PairMatches
    /\ probe.bounding_boxes = <<BoxPlay, BoxFPS>>
    /\ probe.result = cfg.states[CHOOSE i \in MatchPositions :
                                    \A k \in MatchPositions : i <= k].name

----------------------------------------------------------------------------
\* thread 1 is inside SimpleAutomation.run, or has left it
InRun == 1 \in DOMAIN w /\ w[1].kind = "steps"

\* len(steps)
StepCount == Cardinality(DOMAIN cfg.steps)

\* an attempt at the current step comes to its end in this step of the run:
\* _process_step_modular returns, or the observation before it raises
AttemptEnds ==
    /\ InRun
    /\ w[1].pc \in {"capture", "verify"}
    /\ w'[1].pc \in {"loop", "fallback", "returned"}

\* the attempt ending here is counted as a retry (lines 102, 112, 133)
AttemptFails == AttemptEnds /\ w'[1].retries = w[1].retries + 1

\* the attempt ending here is a success (line 128)
AttemptSucceeds == AttemptEnds /\ ~AttemptFails

\* the step index and the retry counter over one step of the run
IndexStep ==
    InRun =>
        /\ AttemptSucceeds =>
              /\ w'[1].current_step = w[1].current_step + 1
              /\ w'[1].retries = 0
        /\ ~AttemptSucceeds =>
              /\ w'[1].current_step = w[1].current_step
              /\ w'[1].retries >= w[1].retries

\* the value run() returns
ReturnsTrueAtEnd ==
    (InRun /\ w[1].pc \in {"returned", "done"}) =>
        (w[1].result = "true" <=> w[1].current_step = StepCount + 1)

\* C28: in SimpleAutomation.run the step index starts at 1, increases by
\* exactly one on each step success and on nothing else and never decreases;
\* a step failure leaves it unchanged; the retry counter is reset to 0
\* exactly when the index advances; run() returns true if and only if the
\* index has reached N+1.
C28_IndexAndRetries ==
    /\ [][(~InRun /\ InRun') => (w'[1].current_step = 1 /\ w'[1].retries = 0)]_vars
    /\ [][IndexStep]_vars
    /\ []ReturnsTrueAtEnd

\* a run of two steps that failed an attempt, retried it and returned true
\* with the index at 3 and the retry counter back at 0
C28_Witness ==
    /\ InRun
    /\ w[1].pc = "returned"
    /\ w[1].result = "true"
    /\ w[1].failed
    /\ StepCount = 2
    /\ w[1].current_step = 3
    /\ w[1].retries = 0

----------------------------------------------------------------------------
\* the attempt ending here fails in _process_step_modular (find not found,
\* action failed, verification failed) and not in the observation before it
StepFails ==
    /\ AttemptFails
    /\ \/ w[1].pc = "verify"
       \/ w'[1].pc = "fallback"
       \/ ~w'[1].raised

\* _execute_fallback returns in this step of the run
FallbackReturns ==
    /\ InRun
    /\ w[1].pc = "fallback"
    /\ w'[1].pc # "fallback"

\* what _execute_fallback hands to send_action: the configured general
\* fallback, else an Escape key press
GeneralOrEscape ==
    IF Truthy(Get(cfg.fallbacks, "general", EmptyDict))
    THEN <<ClickDict(cfg.fallbacks.general, NoBox)>>
    ELSE <<[type |-> "key", key |-> "Escape"]>>

\* one fallback action is dispatched, at the same step, and nothing else
\* changes
FallbackDispatched ==
    /\ w'[1].last = [src |-> "fallback", step |-> w[1].current_step,
                     sent |-> GeneralOrEscape]
    /\ w'[1].pc = "loop"
    /\ w'[1].current_step = w[1].current_step
    /\ w'[1].retries = w[1].retries

\* C29 as stated: every step failure increments the retry counter by one
\* and is followed by the dispatch of one fallback action.
C29_EveryFailureFallsBack ==
    [][StepFails => (w'[1].retries = w[1].retries + 1 /\ w'[1].pc = "fallback")]_vars

\* C29: every step failure increments the retry counter by one; if the
\* counter has then reached max_retries, run() returns false and no fallback
\* action is dispatched; otherwise one fallback action is dispatched next,
\* the configured general fallback, else an Escape key press.
C29_FailureFallsBackUnlessExhausted ==
    /\ [][StepFails =>
            /\ w'[1].retries = w[1].retries + 1
            /\ IF w'[1].retries >= max_retries
               THEN /\ w'[1].pc = "returned"
                    /\ w'[1].result = "false"
                    /\ w'[1].last.src # "fallback"
               ELSE w'[1].pc = "fallback"]_vars
    /\ [][FallbackReturns => FallbackDispatched]_vars

\* after the second failure of a step the configured general fallback has
\* been dispatched and the loop is entered again
C29_Witness ==
    /\ InRun
    /\ w[1].pc = "loop"
    /\ w[1].retries = 2
    /\ w[1].last.src = "fallback"
    /\ Truthy(Get(cfg.fallbacks, "general", EmptyDict))
    /\ w[1].last.sent = <<[type |-> "click", x |-> 5, y |-> 5, button |-> "left"]>>

----------------------------------------------------------------------------
\* the step the run is at
CurrentStep == cfg.steps[w[1].current_step]

\* thread 1 goes through lines 96-126 and _process_step_modular up to the
\* expected delay in this step of the run
AttemptMade ==
    /\ InRun
    /\ w[1].pc = "capture"
    /\ w'[1].pc # "capture"

\* the send_action calls the step's action makes on an element list: none
\* at all unless the find criterion, if declared, matches an element of it
DispatchOn(bounding_boxes, ok_left) ==
    LET target_element == IF "find" \in DOMAIN CurrentStep
                          THEN SA_find_matching_element(CurrentStep.find, bounding_boxes)
                          ELSE NoBox
    IN IF "find" \in DOMAIN CurrentStep /\ target_element = NoBox
       THEN [ok |-> FALSE, sent |-> <<>>, found |-> FALSE]
       ELSE [ok |-> _execute_modular_action(CurrentStep.action, target_element, ok_left).ok,
             sent |-> _execute_modular_action(CurrentStep.action, target_element, ok_left).sent,
             found |-> TRUE]

\* the attempt dispatched the step's action: then the find stage, if
\* declared, had found the element the action was applied to
DispatchedAfterFind ==
    w'[1].last.src = "step" =>
        \E bounding_boxes \in LinearScreens, ok_left \in 0..MaxSends :
            /\ DispatchOn(bounding_boxes, ok_left).found
            /\ w'[1].last.sent = DispatchOn(bounding_boxes, ok_left).sent

\* the attempt goes on to verification: then the action was dispatched in
\* full and no send_action call of it raised
VerifiedAfterDispatch ==
    w'[1].pc = "verify" =>
        /\ "verify_success" \in DOMAIN CurrentStep
        /\ w'[1].last.src = "step"
        /\ w'[1].last.step = w[1].current_step
        /\ w'[1].raised = w[1].raised
        /\ \E bounding_boxes \in LinearScreens :
              /\ DispatchOn(bounding_boxes, MaxSends).ok
              /\ w'[1].last.sent = DispatchOn(bounding_boxes, MaxSends).sent

\* C30: within one attempt of a step the stages run in the order find,
\* dispatch of the action, expected delay, verify, and a failing stage
\* prevents all later ones: the action is dispatched only on an element the
\* find stage has found, verification is run only after the action has been
\* dispatched without failure, and verification dispatches nothing.
C30_StagesInOrder ==
    /\ [][AttemptMade => (DispatchedAfterFind /\ VerifiedAfterDispatch)]_vars
    /\ [][(InRun /\ w[1].pc = "verify") => w'[1].last = w[1].last]_vars

\* a step declaring a find criterion has failed its first attempt without
\* any send_action call: the fallback is next
C30_Witness ==
    /\ InRun
    /\ w[1].pc = "fallback"
    /\ "find" \in DOMAIN CurrentStep
    /\ w[1].attempts = 1
    /\ w[1].last = NoSends
    /\ ~w[1].raised

----------------------------------------------------------------------------
\* _handle_optional_steps returns True in this step of the run: line 93
\* continues with the next iteration
OptionalHandled ==
    /\ InRun
    /\ w[1].pc = "optional"
    /\ w'[1].pc = "loop"

\* the send_action calls of an optional action whose trigger a detector
\* screen matches and which succeeds
HandledSends ==
    {_execute_modular_action(cfg.optional_steps[i].config.action, NoBox, MaxSends).sent :
        i \in {k \in 1..Len(cfg.optional_steps) :
                 /\ _execute_modular_action(cfg.optional_steps[k].config.action,
                                            NoBox, MaxSends).ok
                 /\ \E optional_boxes \in LinearScreens :
                       SA_find_matching_element(
                           Get(cfg.optional_steps[k].config, "trigger", EmptyDict),
                           optional_boxes) # NoBox}}

\* C31: when an optional interrupt's trigger matches and its action is
\* executed successfully, that iteration changes neither the step index nor
\* the retry counter and does not execute the current step (no attempt is
\* made, nothing of the step is dispatched); the loop is entered again at
\* the same step.  An iteration whose optional check handles nothing goes
\* on to the step without changing the two counters either.
C31_OptionalKeepsStep ==
    /\ [][OptionalHandled =>
            /\ w'[1].current_step = w[1].current_step
            /\ w'[1].retries = w[1].retries
            /\ w'[1].attempts = w[1].attempts
            /\ w'[1].advances = w[1].advances
            /\ w'[1].log = w[1].log
            /\ w'[1].last.src = "optional"
            /\ w'[1].last.sent \in HandledSends]_vars
    /\ [][(InRun /\ w[1].pc = "optional") =>
            /\ w'[1].current_step = w[1].current_step
            /\ w'[1].retries = w[1].retries]_vars

\* a popup dismissed while the second step is being retried: index and
\* retry counter as the failed attempt left them
C31_Witness ==
    /\ InRun
    /\ w[1].pc = "loop"
    /\ w[1].last.src = "optional"
    /\ w[1].last.sent = <<[type |-> "key", key |-> "Escape"]>>
    /\ w[1].current_step = 2
    /\ w[1].retries = 1

----------------------------------------------------------------------------
\* the verification has been applied
Verified == probe.op = "verify" /\ probe.done

\* an element matched by a criterion of the linear executor: type equal or
\* any, text per the match strategy
Matched(crit, bbox) ==
    /\ Get(crit, "type", "any") = "any" \/ bbox.element_type = Get(crit, "type", "any")
    /\ TextMatch(Get(crit, "text", <<>>), bbox.element_text,
                 Get(crit, "text_match", "contains"))

\* every criterion of verify_success is matched by an element of the list
AllPresent(boxes) ==
    \A i \in 1..Len(probe.step.verify_success) :
        \E j \in 1..Len(boxes) : Matched(probe.step.verify_success[i], boxes[j])

\* C32: step verification succeeds if and only if the fresh capture and
\* detection raise nothing and every criterion listed in verify_success is
\* matched by at least one element of that fresh observation; the elements
\* observed before the action play no part.
C32_VerifiesFreshObservation ==
    Verified => (probe.result <=> (probe.observed = "ok" /\ AllPresent(probe.verify_boxes)))

\* two criteria met by the fresh observation and not by the elements seen
\* before the action: the verification succeeds
C32_Witness ==
    /\ Verified
    /\ Len(probe.step.verify_success) = 2
    /\ probe.step.verify_success[1] # probe.step.verify_success[2]
    /\ ~AllPresent(probe.bounding_boxes)
    /\ AllPresent(probe.verify_boxes)
    /\ probe.result

----------------------------------------------------------------------------
\* the matcher has been applied to a state definition
Found == probe.op = "find" /\ probe.done

\* the required criteria of the definition, none when the key is absent
RequiredOf(state_def) == Get(state_def, "required_elements", <<>>)

\* every required criterion is satisfied by at least one element: type equal
\* or any, text per the match strategy, confidence at least the threshold
EveryRequiredSatisfied ==
    \A i \in 1..Len(RequiredOf(probe.state_def)) :
        \E j \in 1..Len(probe.bounding_boxes) :
            /\ C2_Satisfies(RequiredOf(probe.state_def)[i], probe.bounding_boxes[j])
            /\ probe.bounding_boxes[j].confidence >=
                  Get(RequiredOf(probe.state_def)[i], "required_confidence", 60)

\* C33: a state definition matches an element list if and only if no
\* exclude criterion is matched by any element and every required criterion
\* is satisfied by at least one element; with an empty required list it
\* matches whenever no exclusion matches, on an empty element list too, and
\* what is returned is then a zero-area anchor and no detected element;
\* otherwise what is returned is one of the detected elements.
C33_MatchesIffRequiredAndNotExcluded ==
    Found =>
        /\ probe.result # NoBox <=> (~C2_ExclusionPresent /\ EveryRequiredSatisfied)
        /\ (probe.result # NoBox /\ RequiredOf(probe.state_def) = <<>>) =>
              (probe.result.width = 0 /\ probe.result.height = 0
               /\ probe.result.element_type = "dummy")
        /\ (probe.result # NoBox /\ RequiredOf(probe.state_def) # <<>>) =>
              \E j \in 1..Len(probe.bounding_boxes) : probe.result = probe.bounding_boxes[j]

\* no required criterion, an exclusion that nothing matches, no element at
\* all: the anchor is returned
C33_Witness ==
    /\ Found
    /\ RequiredOf(probe.state_def) = <<>>
    /\ Get(probe.state_def, "exclude_elements", <<>>) # <<>>
    /\ probe.bounding_boxes = <<>>
    /\ probe.result = DummyBox

----------------------------------------------------------------------------
\* the criterion whose match a query of either matcher returns: the last
\* required criterion of a state definition, the target of the executor
AcceptingCriterion ==
    IF probe.op = "find"
    THEN RequiredOf(probe.state_def)[Len(RequiredOf(probe.state_def))]
    ELSE probe.target_def

\* a query of either matcher has returned a detected element
ReturnedElement ==
    /\ probe.op \in {"find", "simple_find"}
    /\ probe.done
    /\ probe.result # NoBox
    /\ \E j \in 1..Len(probe.bounding_boxes) : probe.result = probe.bounding_boxes[j]

\* C34: every evaluation of an element criterion, by the state matcher and
\* by the matcher of the linear executor (find, verify and optional-trigger
\* criteria), accepts only elements whose confidence is at least the
\* criterion's threshold, 0.6 when the criterion does not specify one.
C34_AcceptsOnlyConfident ==
    ReturnedElement =>
        probe.result.confidence >= Get(AcceptingCriterion, "required_confidence", 60)

----------------------------------------------------------------------------
\* thread t, asked to stop while it was alive, passes a cancellation check
\* in this step: the look at the flag before the strategy is entered, or
\* the one at the head of the strategy's loop
ChecksAfterStop(t) ==
    /\ t \in DOMAIN w
    /\ w[t].stopped_at # ""
    /\ w[t].pc \in {"begin", "loop"}
    /\ w'[t].pc # w[t].pc

\* C35: a stop request is never lost: a run for which stop_automation was
\* called ends at its next cancellation check and starts no further
\* iteration, also when start_automation is called again before the
\* stopped run's thread has finished.
C35_StopNeverLost ==
    [][\A t \in 1..MaxStarts :
          ChecksAfterStop(t) => w'[t].pc \in {"returned", "failed", "done"}]_vars

----------------------------------------------------------------------------
\* state_history holds benchmark_running directly followed by
\* benchmark_complete
PassedToComplete(e) ==
    \E i \in 1..(Len(e.state_history) - 1) :
        /\ e.state_history[i] = "benchmark_running"
        /\ e.state_history[i + 1] = "benchmark_complete"

\* the context holds the flag and the duration of the benchmark
TimingRecorded(e) ==
    /\ Get(e.state_context, "benchmark_run", FALSE)
    /\ "benchmark_duration" \in DOMAIN e.state_context
    /\ e.state_context.benchmark_duration >= 0
    /\ e.state_context.benchmark_duration =
          e.benchmark_completed_at - e.benchmark_started_at

\* the engine of the control loop of thread 1, a new one before the loop
\* is entered
LoopEngine ==
    IF 1 \in DOMAIN w /\ w[1].kind = "state_machine" THEN w[1].e ELSE NewEngine

\* C36: whenever state_history passes from benchmark_running directly to
\* benchmark_complete, by a selected transition or by state correction, the
\* context records benchmark_run = true and a non-negative
\* benchmark_duration, the time between the recorded start and completion;
\* the recorded benchmark start time is set once and never overwritten.
C36_TimingRecorded ==
    /\ [](PassedToComplete(LoopEngine) => TimingRecorded(LoopEngine))
    /\ [][TimeSet(LoopEngine.benchmark_started_at) =>
              LoopEngine'.benchmark_started_at = LoopEngine.benchmark_started_at]_vars

----------------------------------------------------------------------------
(* The history kept by determine_next_action *)

\* the states occurring in a history
Entries(h) == {h[i] : i \in 1..Len(h)}

\* no state is entered twice in a row
NoRepeat(h) == \A i \in 1..(Len(h) - 1) : h[i] # h[i + 1]

\* C37: after every determine_next_action call visited_states is the set
\* of entries of state_history, state_start_times has an entry for every
\* visited state, state_history has no two equal consecutive entries, and
\* its last entry is the state the call acted from.
C37_HistoryConsistent ==
    LastCall =>
        LET e == probe.after
        IN /\ e.visited_states = Entries(e.state_history)
           /\ e.visited_states \subseteq DOMAIN e.state_start_times
           /\ NoRepeat(e.state_history)
           /\ e.state_history # <<>>
           /\ e.state_history[Len(e.state_history)] = ActedFrom

\* a call that is given the state the history already ends with, and
\* then corrects it to the state the elements show
C37_Witness ==
    /\ LastCall
    /\ probe.before.state_history # <<>>
    /\ probe.before.state_history[Len(probe.before.state_history)] = probe.current_state
    /\ ActedFrom # probe.current_state
    /\ Len(probe.after.state_history) = Len(probe.before.state_history) + 1

----------------------------------------------------------------------------
(* The calibration of the CoordinateScaler *)

\* the observation of a calibrate_from_screenshot call holds a reference
\* element within a third of the image size of its expected position
HasQualifying(image, bounding_boxes, self) ==
    \E j \in 1..Len(bounding_boxes) :
        /\ IsReference(bounding_boxes[j])
        /\ InExpectedArea(bounding_boxes[j], get_image_dimensions(self, image))

\* what a step does to calibration_count and calibrated
CountStep ==
    /\ probe'.op = "calibrate" =>
          eng'.calibration_count = eng.calibration_count
              + (IF HasQualifying(probe'.image, probe'.bounding_boxes, eng) THEN 1 ELSE 0)
    /\ probe'.op # "calibrate" => eng'.calibration_count = eng.calibration_count
    /\ eng.calibrated => eng'.calibrated

\* C38: calibrated is true exactly when calibration_count has reached
\* max_calibration_samples (3); calibration_count grows by exactly one for
\* each observation with at least one in-tolerance reference element and
\* is unchanged otherwise; calibrated never goes back to false; and while
\* no observation has held a qualifying reference scale_x = scale_y = 1
\* and scale_bounding_boxes returns the boxes unscaled.
C38_CalibrationCount ==
    /\ [](/\ eng.max_calibration_samples = 3
          /\ eng.calibrated <=> eng.calibration_count >= eng.max_calibration_samples
          /\ eng.calibration_count = 0 =>
                /\ eng.scale_x = Frac(1, 1)
                /\ eng.scale_y = Frac(1, 1)
                /\ probe.op = "scale" => probe.result = probe.bounding_boxes)
    /\ [][CountStep]_vars

\* the third qualifying observation, after one that did not qualify,
\* completes the calibration
C38_Witness ==
    /\ probe.op = "calibrate"
    /\ ~probe.before.calibrated
    /\ eng.calibrated
    /\ eng.calibration_count = 3
    /\ calls = 4

\* scale_bounding_boxes before any qualifying observation, after
\* observations that did not qualify
C38_WitnessUnscaled ==
    /\ probe.op = "scale"
    /\ calls >= 1
    /\ eng.calibration_count = 0
    /\ probe.bounding_boxes # <<>>

----------------------------------------------------------------------------
(* The scale factors as means of implied scale factors *)

\* over the first n boxes: the sum of expected / detected along one axis
\* ("x" or "y") of the in-tolerance reference elements whose detected
\* coordinate is positive, and their number
RECURSIVE Implied(_, _, _, _)
Implied(bounding_boxes, actual, axis, n) ==
    IF n = 0 THEN [sum |-> Frac(0, 1), total |-> 0]
    ELSE IF Qualifies(bounding_boxes[n], actual)
            /\ DetectedAt(bounding_boxes[n])[axis] > 0
         THEN [sum |-> FracAdd(Implied(bounding_boxes, actual, axis, n - 1).sum,
                               Frac(ExpectedAt(bounding_boxes[n], actual)[axis],
                                    DetectedAt(bounding_boxes[n])[axis])),
               total |-> Implied(bounding_boxes, actual, axis, n - 1).total + 1]
    ELSE Implied(bounding_boxes, actual, axis, n - 1)

\* a qualifying observation adds the mean implied scale factor of its
\* elements to the running sum of that axis
AddsImpliedMean(axis, sum, sum_after) ==
    LET actual == get_image_dimensions(eng, probe'.image)
        imp == Implied(probe'.bounding_boxes, actual, axis, Len(probe'.bounding_boxes))
    IN (/\ probe'.op = "calibrate"
        /\ HasQualifying(probe'.image, probe'.bounding_boxes, eng)
        /\ imp.total > 0)
       => sum_after = FracAdd(sum, FracOver(imp.sum, imp.total))

\* C39: for every sequence of observations scale_x and scale_y stay
\* strictly positive and each is the mean, over the qualifying
\* observations, of the mean implied scale factor of the in-tolerance
\* reference elements of the observation; a reference element detected at
\* centre coordinate 0 does not pull a scale factor toward 0.
C39_PositiveMeanScale ==
    /\ [](/\ eng.scale_x.n > 0 /\ eng.scale_x.d > 0
          /\ eng.scale_y.n > 0 /\ eng.scale_y.d > 0
          /\ eng.calibration_count > 0 =>
                /\ eng.scale_x = FracOver(eng.sum_scale_x, eng.calibration_count)
                /\ eng.scale_y = FracOver(eng.sum_scale_y, eng.calibration_count))
    /\ [][/\ AddsImpliedMean("x", eng.sum_scale_x, eng'.sum_scale_x)
          /\ AddsImpliedMean("y", eng.sum_scale_y, eng'.sum_scale_y)]_vars

====
